---- MODULE Spec2Model ----
(***************************************************************************)
(* Masstree pages of foedus-core: the page version word protocol           *)
(* (lock / unlock / stable version), the border page slot arrays and       *)
(* record heap, slot reservation, next-layer promotion and border split,   *)
(* run by concurrent writer threads and an optimistic reader.              *)
(***************************************************************************)
EXTENDS Integers, Sequences, FiniteSets, TLC

(* ------------------------------------------------------------------ *)
(* Bounds of the model                                                 *)
(* ------------------------------------------------------------------ *)
\* key bytes range over 0..ByteMax; ByteMax stands for 0xFF
ByteMax == 2
\* insert operations begun in one behaviour
MaxOps == 3
\* page frames the pool can hand out (ids 1..MaxPages); page 0 is a snapshot page
MaxPages == 4
\* separators an intermediate page or a mini-page holds; stands for
\* kMaxIntermediateSeparators and kMaxIntermediateMiniSeparators
MaxSeparators == 2
\* hash values range over 0..HashMax; HashMax stands for the largest uint64
HashMax == 4
\* processes (NUMA nodes) and threads per process of the L3-miss experiment
MaxNodes == 2
MaxCoresPerNode == 2

(* ------------------------------------------------------------------ *)
(* Program constants                                                   *)
(* ------------------------------------------------------------------ *)
kMaxKeys == 64
kKeyLengthNextLayer == 255
kKeyLengthMax == 254
kHeaderSize == 1344
kDataSize == 4096 - kHeaderSize
\* sizeof(KeySlice)
kSliceLen == 8
\* a null page pointer
NullPage == -1
\* the one snapshot page of the model
SnapshotPage == 0
\* the layer-0 root border page
RootPage == 1


RECURSIVE Pow(_, _)
Pow(b, e) == IF e = 0 THEN 1 ELSE b * Pow(b, e - 1)

(* ------------------------------------------------------------------ *)
(* Keys and slices                                                     *)
(* ------------------------------------------------------------------ *)
Base == ByteMax + 1
kInfimumSlice == 0
kSupremumSlice == Pow(Base, kSliceLen) - 1

ByteAt(key, i) == IF i <= Len(key) THEN key[i] ELSE 0

\* the first 8 bytes of the key, big-endian, short keys padded with zero bytes
SliceOf(key) ==
  LET d(i) == ByteAt(key, i) * Pow(Base, kSliceLen - i)
  IN  d(1) + d(2) + d(3) + d(4) + d(5) + d(6) + d(7) + d(8)

\* the bytes of the key beyond its slice
SuffixOf(key) ==
  IF Len(key) > kSliceLen THEN SubSeq(key, kSliceLen + 1, Len(key)) ELSE << >>

Prefix1 == << 1, 0, 0, 0, 0, 0, 0, 0 >>
KSup == [i \in 1..kSliceLen |-> ByteMax]
KZ == << 0 >>
KS == << 1 >>
KS2 == << 1, 0 >>
KA == Prefix1 \o << 1 >>
KB == Prefix1 \o << 2 >>
KC == Prefix1 \o << 0 >>

\* the keys the writers insert and the reader looks up
Keys == { KZ, KSup, KS, KS2, KA, KB, KC }

\* payload sizes of the inserted records; two records of PayloadBig fill a page
PayloadBig == (kDataSize \div 2) - 16
PayloadCounts == { 0, PayloadBig }
\* the payload that fills the data area together with one of PayloadBig bytes
PayloadRest == kDataSize - PayloadBig

(* ------------------------------------------------------------------ *)
(* Page layout                                                         *)
(* ------------------------------------------------------------------ *)
\* faulty variant: a reserved record that is locked and not flagged deleted
LockedLiveOwnerId == [deleted |-> FALSE, keylocked |-> TRUE]

\* xct::XctId of a record as far as the pages read it
InitialOwnerId == [deleted |-> TRUE, keylocked |-> TRUE]
ZeroOwnerId == [deleted |-> FALSE, keylocked |-> FALSE]

\* a 16-byte block of data_ that was never written
ZeroBlock == [sfx |-> << >>, pay |-> << >>, ptr |-> NullPage]

InitialVersion(layer, root) ==
  [ locked |-> 0, inserting |-> 0, splitting |-> 0, deleted |-> 0,
    has_foster |-> 0, is_root |-> root, layer |-> layer,
    key_count |-> 0, vsplit |-> 0 ]

\* a frame of the pool that holds no page yet
FreeFrame ==
  [ allocated |-> FALSE, snapshot |-> FALSE, storage_id |-> 0, page_type |-> "none",
    low_fence |-> 0, high_fence |-> 0, foster |-> NullPage,
    ver |-> InitialVersion(0, 0),
    remaining_key_length |-> << >>, slices |-> << >>, offsets |-> << >>,
    payload_length |-> << >>, owner_ids |-> << >>,
    data |-> << >> ]

\* initialize_volatile_page: header, fences, layer, zero key count
InitializedBorder(layer, low, high, root, snap) ==
  [ FreeFrame EXCEPT !.allocated = TRUE, !.snapshot = snap, !.storage_id = 1,
                     !.page_type = "border", !.low_fence = low, !.high_fence = high,
                     !.ver = InitialVersion(layer, root) ]

\* array reads; a slot never written reads as the zero bytes of a fresh frame
RemLen(pg, i) ==
  IF i < Len(pg.remaining_key_length) THEN pg.remaining_key_length[i + 1] ELSE 0
SliceAt(pg, i) == IF i < Len(pg.slices) THEN pg.slices[i + 1] ELSE 0
PayloadLen(pg, i) == IF i < Len(pg.payload_length) THEN pg.payload_length[i + 1] ELSE 0
OwnerAt(pg, i) == IF i < Len(pg.owner_ids) THEN pg.owner_ids[i + 1] ELSE ZeroOwnerId

\* offsets_[idx] for any uint8 idx: past the 64 entries of offsets_ the load
\* falls into payload_length_ (bytes 704..831 of the page, little-endian
\* uint16), and past that into owner_ids_
OffsetsRaw(pg, idx) ==
  IF idx < kMaxKeys
    THEN (IF idx < Len(pg.offsets) THEN pg.offsets[idx + 1] ELSE 0)
    ELSE IF idx < 3 * kMaxKeys
      THEN LET w == PayloadLen(pg, (idx - kMaxKeys) \div 2)
           IN  IF (idx - kMaxKeys) % 2 = 0 THEN w % 256 ELSE (w \div 256) % 256
      ELSE 0

DataAt(pg, b) == IF b \in DOMAIN pg.data THEN pg.data[b] ELSE ZeroBlock

\* byte j (from 0) of the record that starts in block b: suffix, then payload,
\* then the zero bytes of the frame; a next-layer pointer is no key byte
RecordByte(pg, b, j) ==
  LET c == DataAt(pg, b)
  IN  IF c.ptr # NullPage THEN 0 - 1
      ELSE IF j < Len(c.sfx) THEN c.sfx[j + 1]
      ELSE IF j - Len(c.sfx) < Len(c.pay) THEN c.pay[j - Len(c.sfx) + 1]
      ELSE 0

\* get_record(index): the block data_ + (offsets_[index] << 4)
get_record(pg, index) == OffsetsRaw(pg, index)

does_point_to_layer(pg, index) == RemLen(pg, index) = kKeyLengthNextLayer

\* *get_next_layer(index): the pointer stored where the record of the slot is
get_next_layer(pg, index) == DataAt(pg, OffsetsRaw(pg, index)).ptr

\* std::memcmp(record, suffix, n) == 0
SuffixEqual(pg, block, suffix, n) ==
  \A j \in 0..(n - 1) : RecordByte(pg, block, j) = suffix[j + 1]

calculate_suffix_length(remaining_length) ==
  IF remaining_length >= kSliceLen THEN remaining_length - kSliceLen ELSE 0

align16(x) == ((x + 15) \div 16) * 16

\* uint16_t result
calculate_record_size(remaining_length, payload_count) ==
  align16(calculate_suffix_length(remaining_length) + payload_count) % 65536

can_accomodate(pg, new_index, remaining_length, payload_count) ==
  IF new_index = 0 THEN TRUE
  ELSE LET record_size == calculate_record_size(remaining_length, payload_count)
           last_offset == (OffsetsRaw(pg, new_index - 1) * 16) % 65536
       IN  record_size <= last_offset

(* ------------------------------------------------------------------ *)
(* Border page search (masstree_page_impl.hpp)                         *)
(* ------------------------------------------------------------------ *)
kNotFound == "kNotFound"
kExactMatchLocalRecord == "kExactMatchLocalRecord"
kExactMatchLayerPointer == "kExactMatchLayerPointer"
kConflictingLocalRecord == "kConflictingLocalRecord"

FindKeyForReserveResult(index, match_type) ==
  [index |-> index, match_type |-> match_type]

\* the loop of find_key from slot i on
RECURSIVE FindKeyLoop(_, _, _, _, _, _)
FindKeyLoop(pg, key_count, i, slice, suffix, remaining) ==
  IF i >= key_count THEN kMaxKeys
  ELSE IF slice # SliceAt(pg, i)
    THEN FindKeyLoop(pg, key_count, i + 1, slice, suffix, remaining)
  ELSE IF remaining <= kSliceLen
    THEN (IF RemLen(pg, i) = remaining
            THEN i
            ELSE FindKeyLoop(pg, key_count, i + 1, slice, suffix, remaining))
  ELSE IF does_point_to_layer(pg, i) THEN i
  ELSE IF RemLen(pg, i) = remaining
          /\ SuffixEqual(pg, get_record(pg, OffsetsRaw(pg, i)), suffix,
                         remaining - kSliceLen)
    THEN i
  ELSE IF RemLen(pg, i) > kSliceLen THEN kMaxKeys
  ELSE FindKeyLoop(pg, key_count, i + 1, slice, suffix, remaining)

\* faulty variant: the first slot with the slice is the answer, whatever its
\* length
find_key_any_length(pg, stable, slice, suffix, remaining) ==
  LET same == { i \in 0..(stable.key_count - 1) : SliceAt(pg, i) = slice }
  IN  IF same = { } THEN kMaxKeys ELSE CHOOSE i \in same : \A j \in same : i <= j

find_key(pg, stable, slice, suffix, remaining) ==
  FindKeyLoop(pg, stable.key_count, 0, slice, suffix, remaining)

RECURSIVE FindKeyNormalizedLoop(_, _, _, _)
FindKeyNormalizedLoop(pg, i, to_index, slice) ==
  IF i >= to_index THEN kMaxKeys
  ELSE IF slice = SliceAt(pg, i) /\ RemLen(pg, i) = kSliceLen THEN i
  ELSE FindKeyNormalizedLoop(pg, i + 1, to_index, slice)

\* faulty variant: the first slot of the slice, whatever its length
find_key_normalized_any_length(pg, from_index, to_index, slice) ==
  LET same == { i \in from_index..(to_index - 1) : SliceAt(pg, i) = slice }
  IN  IF same = { } THEN kMaxKeys ELSE CHOOSE i \in same : \A j \in same : i <= j

find_key_normalized(pg, from_index, to_index, slice) ==
  FindKeyNormalizedLoop(pg, from_index, to_index, slice)

RECURSIVE FindKeyForReserveLoop(_, _, _, _, _, _)
FindKeyForReserveLoop(pg, i, to_index, slice, suffix, remaining) ==
  IF i >= to_index THEN FindKeyForReserveResult(kMaxKeys, kNotFound)
  ELSE IF slice # SliceAt(pg, i)
    THEN FindKeyForReserveLoop(pg, i + 1, to_index, slice, suffix, remaining)
  ELSE IF remaining <= kSliceLen
    THEN (IF RemLen(pg, i) = remaining
            THEN FindKeyForReserveResult(i, kExactMatchLocalRecord)
            ELSE FindKeyForReserveLoop(pg, i + 1, to_index, slice, suffix, remaining))
  ELSE IF does_point_to_layer(pg, i)
    THEN FindKeyForReserveResult(i, kExactMatchLayerPointer)
  ELSE IF RemLen(pg, i) <= kSliceLen
    THEN FindKeyForReserveLoop(pg, i + 1, to_index, slice, suffix, remaining)
  ELSE IF RemLen(pg, i) = remaining
          /\ SuffixEqual(pg, get_record(pg, OffsetsRaw(pg, i)), suffix,
                         remaining - kSliceLen)
    THEN FindKeyForReserveResult(i, kExactMatchLocalRecord)
  ELSE FindKeyForReserveResult(i, kConflictingLocalRecord)

\* faulty variant: a long key that conflicts with a local record is reported
\* as not found
find_key_for_reserve_no_conflict(pg, from_index, to_index, slice, suffix, remaining) ==
  LET r == FindKeyForReserveLoop(pg, from_index, to_index, slice, suffix, remaining)
  IN  IF r.match_type = kConflictingLocalRecord
        THEN FindKeyForReserveResult(kMaxKeys, kNotFound)
        ELSE r

\* faulty variant: the re-scan is left out, every key counts as absent
find_key_for_reserve_unscanned(pg, from_index, to_index, slice, suffix, remaining) ==
  FindKeyForReserveResult(kMaxKeys, kNotFound)

\* faulty variant: a record that is flagged deleted counts as absent
find_key_for_reserve_skip_deleted(pg, from_index, to_index, slice, suffix, remaining) ==
  LET r == FindKeyForReserveLoop(pg, from_index, to_index, slice, suffix, remaining)
  IN  IF r.match_type = kExactMatchLocalRecord /\ OwnerAt(pg, r.index).deleted
        THEN FindKeyForReserveResult(kMaxKeys, kNotFound)
        ELSE r

\* faulty variant: the scan starts one slot late
find_key_for_reserve_skip_first(pg, from_index, to_index, slice, suffix, remaining) ==
  FindKeyForReserveLoop(pg, from_index + 1, to_index, slice, suffix, remaining)

\* faulty variant: a record of at most 8 bytes that shares the slice of a
\* long key is reported as a conflicting local record
find_key_for_reserve_conflict_short(pg, from_index, to_index, slice, suffix, remaining) ==
  LET r == FindKeyForReserveLoop(pg, from_index, to_index, slice, suffix, remaining)
      short == { i \in from_index..(to_index - 1) :
                   slice = SliceAt(pg, i) /\ RemLen(pg, i) <= kSliceLen }
  IN  IF remaining > kSliceLen /\ r.match_type = kNotFound /\ short # { }
        THEN FindKeyForReserveResult(CHOOSE i \in short : \A j \in short : i <= j,
                                     kConflictingLocalRecord)
        ELSE r

find_key_for_reserve(pg, from_index, to_index, slice, suffix, remaining) ==
  FindKeyForReserveLoop(pg, from_index, to_index, slice, suffix, remaining)

(* ------------------------------------------------------------------ *)
(* Border page writes                                                  *)
(* ------------------------------------------------------------------ *)
\* arr[index] = v on an array kept as the sequence of its written entries
SetAt(arr, index, v, zero) ==
  IF index < Len(arr) THEN [arr EXCEPT ![index + 1] = v]
  ELSE [k \in 1..(index + 1) |->
          IF k <= Len(arr) THEN arr[k] ELSE IF k = index + 1 THEN v ELSE zero]

\* data_[block] = c
SetBlock(data, block, c) ==
  [b \in (DOMAIN data) \cup {block} |-> IF b = block THEN c ELSE data[b]]

\* the payload without its trailing zero bytes (the frame behind it is zero)
RECURSIVE Trim(_)
Trim(s) == IF Len(s) > 0 /\ s[Len(s)] = 0 THEN Trim(SubSeq(s, 1, Len(s) - 1)) ELSE s

\* the payload with the bytes q written from byte off on
WritePayload(pay, off, q) ==
  LET n == IF Len(pay) > off + Len(q) THEN Len(pay) ELSE off + Len(q)
  IN  Trim([ j \in 1..n |-> IF j > off /\ j <= off + Len(q) THEN q[j - off]
                            ELSE IF j <= Len(pay) THEN pay[j] ELSE 0 ])

\* the first n bytes of a payload
PayloadPrefix(pay, n) == Trim(SubSeq(pay, 1, IF n < Len(pay) THEN n ELSE Len(pay)))

\* faulty variant: the slot arrays are written one slot below the reserved one
reserve_record_space_previous(pg, index, initial_owner_id, slice, suffix, remaining_length, payload_count) ==
  LET slot == IF index = 0 THEN 0 ELSE index - 1
      suffix_length == calculate_suffix_length(remaining_length)
      record_size == (calculate_record_size(remaining_length, payload_count) \div 16) % 256
      previous_offset == IF index = 0 THEN kDataSize \div 16
                         ELSE OffsetsRaw(pg, index - 1)
      new_offset == (previous_offset - record_size) % 256
  IN  [ pg EXCEPT
          !.slices = SetAt(@, slot, slice, 0),
          !.remaining_key_length = SetAt(@, slot, remaining_length, 0),
          !.payload_length = SetAt(@, slot, payload_count, 0),
          !.offsets = SetAt(@, slot, new_offset, 0),
          !.owner_ids = SetAt(@, slot, initial_owner_id, ZeroOwnerId),
          !.data = IF suffix_length > 0
                     THEN SetBlock(@, new_offset,
                                   [sfx |-> suffix, pay |-> << >>, ptr |-> NullPage])
                     ELSE @ ]

reserve_record_space(pg, index, initial_owner_id, slice, suffix, remaining_length, payload_count) ==
  LET suffix_length == calculate_suffix_length(remaining_length)
      record_size == (calculate_record_size(remaining_length, payload_count) \div 16) % 256
      previous_offset == IF index = 0 THEN kDataSize \div 16
                         ELSE OffsetsRaw(pg, index - 1)
      new_offset == (previous_offset - record_size) % 256
  IN  [ pg EXCEPT
          !.slices = SetAt(@, index, slice, 0),
          !.remaining_key_length = SetAt(@, index, remaining_length, 0),
          !.payload_length = SetAt(@, index, payload_count, 0),
          !.offsets = SetAt(@, index, new_offset, 0),
          !.owner_ids = SetAt(@, index, initial_owner_id, ZeroOwnerId),
          !.data = IF suffix_length > 0
                     THEN SetBlock(@, new_offset,
                                   [sfx |-> suffix, pay |-> << >>, ptr |-> NullPage])
                     ELSE @ ]

\* set_next_layer, first store: remaining_key_length_[index] = kKeyLengthNextLayer
set_next_layer_length(pg, index) ==
  [pg EXCEPT !.remaining_key_length = SetAt(@, index, kKeyLengthNextLayer, 0)]

\* set_next_layer, second store: *get_next_layer(index) = pointer
set_next_layer_pointer(pg, index, pointer) ==
  [pg EXCEPT !.data = SetBlock(@, OffsetsRaw(pg, index),
                               [sfx |-> << >>, pay |-> << >>, ptr |-> pointer])]

set_next_layer(pg, index, pointer) ==
  set_next_layer_pointer(set_next_layer_length(pg, index), index, pointer)

(* ------------------------------------------------------------------ *)
(* Page version word                                                   *)
(* ------------------------------------------------------------------ *)
\* one CAS attempt of lock_version: the locked page, or nothing while it spins
lock_version(pg) ==
  IF pg.ver.locked = 0 THEN { [pg EXCEPT !.ver.locked = 1] } ELSE { }

\* faulty variant: the modification bits are cleared and the lock bit is kept
unlock_version_lock_kept(pg) ==
  [ pg EXCEPT !.ver.inserting = 0, !.ver.splitting = 0,
              !.ver.vsplit = IF pg.ver.splitting = 1 THEN @ + 1 ELSE @ ]

unlock_version(pg) ==
  [ pg EXCEPT !.ver.locked = 0, !.ver.inserting = 0, !.ver.splitting = 0,
              !.ver.vsplit = IF pg.ver.splitting = 1 THEN @ + 1 ELSE @ ]

\* faulty variant: the key count is raised and the inserting bit is not set
increment_key_count_only(pg) == [pg EXCEPT !.ver.key_count = @ + 1]

set_inserting_and_increment_key_count(pg) ==
  [pg EXCEPT !.ver.inserting = 1, !.ver.key_count = @ + 1]

set_splitting(pg) == [pg EXCEPT !.ver.splitting = 1]

\* faulty variant: lock() without the snapshot test
lock_unconditional(pg) == lock_version(pg)

\* faulty variant: the snapshot test of lock() inverted
lock_snapshot_only(pg) == IF pg.snapshot THEN lock_version(pg) ELSE { pg }

\* MasstreePage::lock
lock(pg) == IF ~pg.snapshot THEN lock_version(pg) ELSE { pg }

\* faulty variant: the snapshot test of unlock() inverted
unlock_snapshot_only(pg) == IF pg.snapshot THEN unlock_version(pg) ELSE pg

\* faulty variant: unlock() that clears the three bits and leaves vsplit alone
unlock_without_vsplit(pg) ==
  IF ~pg.snapshot
    THEN [ pg EXCEPT !.ver.locked = 0, !.ver.inserting = 0, !.ver.splitting = 0 ]
    ELSE pg

\* MasstreePage::unlock
unlock(pg) == IF ~pg.snapshot THEN unlock_version(pg) ELSE pg

\* MasstreePage::get_version: the version word as it is, without spinning
get_version(pg) == { pg.ver }

\* MasstreePage::get_stable_version, one read of the spin: the version that is
\* neither inserting nor splitting, or nothing while it spins
get_stable_version(pg) ==
  IF pg.ver.inserting = 0 /\ pg.ver.splitting = 0 THEN { pg.ver } ELSE { }

(* ------------------------------------------------------------------ *)
(* Intermediate page search (masstree_page_impl.hpp)                   *)
(* ------------------------------------------------------------------ *)
\* the loop of find_minipage and of find_pointer from separator i on; the
\* sequence separators holds separators_[0], separators_[1], ...
RECURSIVE FindSeparatorLoop(_, _, _, _)
FindSeparatorLoop(separators, separator_count, i, slice) ==
  IF i >= separator_count THEN separator_count
  ELSE IF slice < separators[i + 1] THEN i
  ELSE FindSeparatorLoop(separators, separator_count, i + 1, slice)

\* faulty variant: the separators are not looked at, the last pointer is taken
find_pointer_last(mini, stable, slice) == stable.key_count

\* MiniPage::find_pointer
find_pointer(mini, stable, slice) ==
  FindSeparatorLoop(mini.separators, stable.key_count, 0, slice)

\* faulty variant: a slice equal to a separator goes to the left of it
find_minipage_equal_left(pg, stable, slice) ==
  LET left == { i \in 0..(stable.key_count - 1) : slice <= pg.separators[i + 1] }
  IN  IF left = { } THEN stable.key_count
      ELSE CHOOSE i \in left : \A j \in left : i <= j

\* MasstreeIntermediatePage::find_minipage
find_minipage(pg, stable, slice) ==
  FindSeparatorLoop(pg.separators, stable.key_count, 0, slice)

(* ------------------------------------------------------------------ *)
(* State                                                               *)
(* ------------------------------------------------------------------ *)
VARIABLES
  pages,   \* page id -> page frame
  th,      \* writer thread -> its registers and program position
  rd,      \* the optimistic reader's registers and program position
  hist,    \* slot contents that existed since the reader's first version read
  ops,     \* insert operations begun so far
  root_dual_pointer, \* the control block's pointer to the root page of layer 0
  l3miss             \* the processes of the L3-miss experiment and their channel

vars == << pages, th, rd, hist, ops, root_dual_pointer, l3miss >>

\* the experiment is not run
NoExperiment == [ pc |-> "none" ]

Writers == { "w1", "w2" }
PageIds == 0..MaxPages

IdleWriter ==
  [ pc |-> "idle", op |-> "none", key |-> << >>, cnt |-> 0, layer |-> 0,
    root |-> NullPage, page |-> NullPage, index |-> 0, child |-> NullPage,
    next |-> "idle", holds |-> NullPage, vsplit0 |-> 0, result |-> "none",
    pay |-> << >>, off |-> 0, got |-> << >>, cap |-> 0, rset |-> { },
    parent |-> NullPage, mini |-> 0 ]

IdleReader ==
  [ pc |-> "idle", page |-> NullPage, idx |-> 0, v0 |-> InitialVersion(0, 0),
    v1 |-> InitialVersion(0, 0), meta |-> << 0, 0 >>, rec |-> ZeroBlock, ok |-> FALSE ]

\* the key bytes that remain at a layer
RemKey(key, layer) == SubSeq(key, kSliceLen * layer + 1, Len(key))

\* the child an intermediate page routes the slice to
ChildOf(pg, slice) ==
  LET mini == pg.mini_pages[find_minipage(pg, pg.ver, slice)]
  IN  mini.pointers[find_pointer(mini, mini.mini_version, slice) + 1]

\* the border page of a layer that covers the slice: from page p, go down
\* through intermediate pages, and follow the foster sibling while the slice
\* lies at or beyond the high fence
RECURSIVE Locate(_, _, _)
Locate(pgs, p, slice) ==
  IF pgs[p].page_type = "intermediate"
    THEN Locate(pgs, ChildOf(pgs[p], slice), slice)
  ELSE IF pgs[p].ver.has_foster = 1 /\ slice >= pgs[p].high_fence
    THEN Locate(pgs, pgs[p].foster, slice)
    ELSE p

FreeFrames(pgs) == { f \in PageIds : ~pgs[f].allocated }
\* the frame the pool hands out next
NextFrame(pgs) == CHOOSE f \in FreeFrames(pgs) : \A g \in FreeFrames(pgs) : f <= g

\* the snapshot page: one committed record of key KS
SnapshotBorder ==
  LET shell == InitializedBorder(0, kInfimumSlice, kSupremumSlice, 1, TRUE)
      made == reserve_record_space([shell EXCEPT !.ver.key_count = 1], 0, ZeroOwnerId,
                                   SliceOf(KS), SuffixOf(KS), Len(KS), 0)
  IN  made

Init ==
  /\ pages = [ p \in PageIds |->
                 IF p = SnapshotPage THEN SnapshotBorder
                 ELSE IF p = RootPage
                   THEN InitializedBorder(0, kInfimumSlice, kSupremumSlice, 1, FALSE)
                 ELSE FreeFrame ]
  /\ th = [ t \in Writers |-> IdleWriter ]
  /\ rd = IdleReader
  /\ hist = { }
  /\ ops = 0
  /\ root_dual_pointer = RootPage
  /\ l3miss = NoExperiment

\* a root page after n committed inserts of 8-byte keys without payload
\* (slices 1..n): every one of them passed can_accomodate, and
\* reserve_record_space gave each a record of no bytes at the tail of data_
FilledBorder(n) ==
  [ InitializedBorder(0, kInfimumSlice, kSupremumSlice, 1, FALSE) EXCEPT
      !.ver.key_count = n,
      !.slices = [ i \in 1..n |-> i ],
      !.remaining_key_length = [ i \in 1..n |-> kSliceLen ],
      !.payload_length = [ i \in 1..n |-> 0 ],
      !.offsets = [ i \in 1..n |-> kDataSize \div 16 ],
      !.owner_ids = [ i \in 1..n |-> ZeroOwnerId ] ]

\* the fills of the root page the edge runs start from
EdgeFills == { 0, kMaxKeys - 1, kMaxKeys }

InitEdge ==
  /\ \E n \in EdgeFills :
       pages = [ p \in PageIds |->
                   IF p = SnapshotPage THEN SnapshotBorder
                   ELSE IF p = RootPage THEN FilledBorder(n)
                   ELSE FreeFrame ]
  /\ th = [ t \in Writers |-> IdleWriter ]
  /\ rd = IdleReader
  /\ hist = { }
  /\ ops = 0
  /\ root_dual_pointer = RootPage
  /\ l3miss = NoExperiment

\* what a reader loads of slot i: its slice, its length and its record block
Content(pg, i) ==
  [ meta |-> << SliceAt(pg, i), RemLen(pg, i) >>, rec |-> DataAt(pg, OffsetsRaw(pg, i)) ]

Reading == rd.pc \in { "meta", "rec", "v1" }

\* every write to the pages is recorded in the reader's history of slot contents
RecordHistory ==
  hist' = IF Reading THEN hist \cup { Content(pages'[rd.page], rd.idx) } ELSE hist

(* ------------------------------------------------------------------ *)
(* Writers: slot reservation (insert path)                             *)
(* ------------------------------------------------------------------ *)
\* insert_record begins: descend to the border page that covers the key
BeginInsert(t, k, c) ==
  /\ th[t].pc = "idle"
  /\ ops < MaxOps
  /\ th' = [th EXCEPT ![t] = [ IdleWriter EXCEPT
               !.pc = "locking", !.op = "insert", !.key = k, !.cnt = c,
               !.pay = IF c > 0 THEN << 1 >> ELSE << >>,
               !.root = RootPage, !.page = Locate(pages, RootPage, SliceOf(k)) ]]
  /\ ops' = ops + 1
  /\ UNCHANGED << pages, rd, hist, root_dual_pointer, l3miss >>

\* a thread calls lock() on the snapshot page and unlock() after it
BeginTouchSnapshot(t) ==
  /\ th[t].pc = "idle"
  /\ th' = [th EXCEPT ![t] = [ IdleWriter EXCEPT
               !.pc = "locking", !.op = "touch", !.page = SnapshotPage ]]
  /\ UNCHANGED << pages, rd, hist, ops, root_dual_pointer, l3miss >>

\* lock() returns
LockPage(t) ==
  /\ th[t].pc \in { "locking", "split" }
  /\ \E npg \in lock(pages[th[t].page]) :
       pages' = [pages EXCEPT ![th[t].page] = npg]
  /\ th' = [th EXCEPT ![t].holds = th[t].page,
                      ![t].vsplit0 = pages[th[t].page].ver.vsplit,
                      ![t].pc = IF th[t].pc = "split" THEN "split_check"
                                ELSE IF th[t].op = "insert" THEN "locked"
                                ELSE "unlocking"]
  /\ UNCHANGED << rd, ops, root_dual_pointer, l3miss >>
  /\ RecordHistory

\* under the lock: re-scan for the key and decide what the insert does
RecordEntry(pg, p, i) ==
  [ kind |-> "record", page |-> p, slot |-> i, observed |-> OwnerAt(pg, i) ]

Rescan(t) ==
  /\ th[t].pc = "locked"
  /\ LET pg == pages[th[t].page]
         rk == RemKey(th[t].key, th[t].layer)
         slice == SliceOf(rk)
         remaining == Len(rk)
         kc == pg.ver.key_count
         r == find_key_for_reserve(pg, 0, kc, slice, SuffixOf(rk), remaining)
     IN  th' = [th EXCEPT ![t] =
           IF Locate(pages, th[t].page, slice) # th[t].page
             THEN [@ EXCEPT !.pc = "unlocking", !.next = "relocate"]
           ELSE IF r.match_type = kExactMatchLocalRecord
             THEN (IF /\ OwnerAt(pg, r.index).deleted
                      /\ ~OwnerAt(pg, r.index).keylocked
                      /\ th[t].cnt <= PayloadLen(pg, r.index)
                     THEN \* the record is logically deleted: the insert takes it over
                          [@ EXCEPT !.pc = "unlocking", !.next = "pending",
                                    !.index = r.index, !.result = "reused"]
                     ELSE \* the record that was found goes to the read set
                          [@ EXCEPT !.pc = "unlocking", !.next = "idle",
                                    !.index = r.index, !.result = "KeyAlreadyExists",
                                    !.rset = { RecordEntry(pg, th[t].page, r.index) }])
           ELSE IF r.match_type = kExactMatchLayerPointer
             THEN [@ EXCEPT !.pc = "unlocking", !.next = "descend", !.index = r.index,
                            !.child = DataAt(pg, OffsetsRaw(pg, r.index)).ptr]
           ELSE IF r.match_type = kConflictingLocalRecord
             THEN [@ EXCEPT !.pc = "promote_keylock", !.index = r.index]
           ELSE IF can_accomodate(pg, kc, remaining, th[t].cnt)
             THEN [@ EXCEPT !.pc = "reserve", !.index = kc]
           ELSE [@ EXCEPT !.pc = "unlocking", !.next = "split"]]
  /\ UNCHANGED << pages, rd, hist, ops, root_dual_pointer, l3miss >>

SetInserting(t) ==
  /\ th[t].pc = "reserve"
  /\ pages' = [pages EXCEPT ![th[t].page] = set_inserting_and_increment_key_count(@)]
  /\ th' = [th EXCEPT ![t].pc = "reserve_write"]
  /\ UNCHANGED << rd, ops, root_dual_pointer, l3miss >>
  /\ RecordHistory

ReserveRecordSpace(t) ==
  /\ th[t].pc = "reserve_write"
  /\ IF th[t].index >= kMaxKeys
       THEN \* the stores go past the 64 entries of the slot arrays: the page
            \* is corrupted and the thread is not followed further
            /\ th' = [th EXCEPT ![t].pc = "corrupt"]
            /\ UNCHANGED pages
       ELSE /\ LET rk == RemKey(th[t].key, th[t].layer)
               IN  pages' = [pages EXCEPT ![th[t].page] =
                     reserve_record_space(@, th[t].index, InitialOwnerId, SliceOf(rk),
                                          SuffixOf(rk), Len(rk), th[t].cnt)]
            /\ th' = [th EXCEPT ![t].pc = "unlocking", ![t].next = "pending",
                                ![t].result = "reserved"]
  /\ UNCHANGED << rd, ops, root_dual_pointer, l3miss >>
  /\ RecordHistory

\* unlock() returns
UnlockPage(t) ==
  /\ th[t].pc = "unlocking"
  /\ pages' = [pages EXCEPT ![th[t].page] = unlock(@)]
  /\ th' = [th EXCEPT ![t] = IF th[t].next = "idle"
                               THEN (IF th[t].result = "KeyAlreadyExists"
                                       THEN [ IdleWriter EXCEPT
                                                !.op = th[t].op, !.key = th[t].key,
                                                !.result = th[t].result,
                                                !.rset = th[t].rset ]
                                       ELSE IdleWriter)
                               ELSE [@ EXCEPT !.pc = th[t].next, !.holds = NullPage]]
  /\ UNCHANGED << rd, ops, root_dual_pointer, l3miss >>
  /\ RecordHistory

\* the version check failed or the page was split: descend again in the layer
Relocate(t) ==
  /\ th[t].pc = "relocate"
  /\ th' = [th EXCEPT ![t].pc = "locking",
                      ![t].page = Locate(pages, th[t].root,
                                         SliceOf(RemKey(th[t].key, th[t].layer)))]
  /\ UNCHANGED << pages, rd, hist, ops, root_dual_pointer, l3miss >>

\* follow the next-layer pointer with the key advanced by 8 bytes
Descend(t) ==
  /\ th[t].pc = "descend"
  /\ IF th[t].child \in PageIds
       THEN th' = [th EXCEPT ![t].pc = "locking",
                      ![t].layer = th[t].layer + 1,
                      ![t].root = th[t].child,
                      ![t].child = NullPage,
                      ![t].page = Locate(pages, th[t].child,
                                         SliceOf(RemKey(th[t].key, th[t].layer + 1)))]
       ELSE \* what was read as the pointer is not one: the thread follows it
            \* out of the pool and is not followed further
            th' = [th EXCEPT ![t].pc = "corrupt"]
  /\ UNCHANGED << pages, rd, hist, ops, root_dual_pointer, l3miss >>

\* the inserting transaction ends: commit writes the payload and flips the
\* delete bit, abort leaves the record deleted; both release the record lock
FinishXct(t, commit) ==
  /\ th[t].pc = "pending"
  /\ LET pg == pages[th[t].page]
         i == th[t].index
         b == OffsetsRaw(pg, i)
         old == DataAt(pg, b)
     IN  pages' = [pages EXCEPT ![th[t].page] =
           [ pg EXCEPT
               !.owner_ids = SetAt(@, i, [deleted |-> ~commit, keylocked |-> FALSE],
                                   ZeroOwnerId),
               !.payload_length = IF commit THEN SetAt(@, i, th[t].cnt, 0) ELSE @,
               !.data = IF commit /\ th[t].cnt > 0
                          THEN SetBlock(@, b, [old EXCEPT
                                                 !.pay = WritePayload(@, 0, th[t].pay)])
                          ELSE @ ]]
  /\ th' = [th EXCEPT ![t] = [ IdleWriter EXCEPT
               !.op = IF th[t].result = "reused" THEN "reinserted" ELSE "inserted",
               !.key = th[t].key, !.pay = th[t].pay, !.cnt = th[t].cnt,
               !.result = IF commit THEN "committed" ELSE "aborted" ]]
  /\ UNCHANGED << rd, ops, root_dual_pointer, l3miss >>
  /\ RecordHistory

(* ------------------------------------------------------------------ *)
(* Writers: next-layer promotion                                       *)
(* ------------------------------------------------------------------ *)
\* copy_initial_record: the record of copy_from[copy_index] becomes the only
\* record of a new layer root, keyed by the next 8 bytes of its key
copy_initial_record(newpg, copy_from, copy_index) ==
  LET c == DataAt(copy_from, OffsetsRaw(copy_from, copy_index))
      rest == c.sfx
      paylen == PayloadLen(copy_from, copy_index)
      owner == [OwnerAt(copy_from, copy_index) EXCEPT !.keylocked = FALSE]
      made == reserve_record_space([newpg EXCEPT !.ver.key_count = 1], 0, owner,
                                   SliceOf(rest), SuffixOf(rest), Len(rest), paylen)
      b == OffsetsRaw(made, 0)
  IN  IF Len(c.pay) > 0
        THEN [made EXCEPT !.data = SetBlock(@, b, [DataAt(made, b) EXCEPT !.pay = c.pay])]
        ELSE made

\* lock the owner_id of the conflicting record (spins while it is locked)
KeyLock(t) ==
  /\ th[t].pc = "promote_keylock"
  /\ ~OwnerAt(pages[th[t].page], th[t].index).keylocked
  /\ pages' = [pages EXCEPT ![th[t].page].owner_ids[th[t].index + 1].keylocked = TRUE]
  /\ th' = [th EXCEPT ![t].pc = "promote_create"]
  /\ UNCHANGED << rd, ops, root_dual_pointer, l3miss >>
  /\ RecordHistory

\* allocate the root of the new layer and copy the record into it
CreateLayer(t) ==
  /\ th[t].pc = "promote_create"
  /\ IF FreeFrames(pages) = { }
       THEN /\ th' = [th EXCEPT ![t].pc = "promote_unlock", ![t].child = NullPage,
                                ![t].result = "OutOfPageMemory"]
            /\ UNCHANGED pages
       ELSE LET f == NextFrame(pages)
                pg == pages[th[t].page]
                shell == InitializedBorder(pg.ver.layer + 1, kInfimumSlice,
                                           kSupremumSlice, 1, FALSE)
            IN  /\ pages' = [pages EXCEPT ![f] = copy_initial_record(shell, pg, th[t].index)]
                /\ th' = [th EXCEPT ![t].pc = "promote_set1", ![t].child = f]
  /\ UNCHANGED << rd, ops, root_dual_pointer, l3miss >>
  /\ RecordHistory

SetNextLayerLength(t) ==
  /\ th[t].pc = "promote_set1"
  /\ pages' = [pages EXCEPT ![th[t].page] = set_next_layer_length(@, th[t].index)]
  /\ th' = [th EXCEPT ![t].pc = "promote_set2"]
  /\ UNCHANGED << rd, ops, root_dual_pointer, l3miss >>
  /\ RecordHistory

SetNextLayerPointer(t) ==
  /\ th[t].pc = "promote_set2"
  /\ pages' = [pages EXCEPT ![th[t].page] =
                 set_next_layer_pointer(@, th[t].index, th[t].child)]
  /\ th' = [th EXCEPT ![t].pc = "promote_unlock"]
  /\ UNCHANGED << rd, ops, root_dual_pointer, l3miss >>
  /\ RecordHistory

\* release the record lock
KeyUnlock(t) ==
  /\ th[t].pc = "promote_unlock"
  /\ pages' = [pages EXCEPT ![th[t].page].owner_ids[th[t].index + 1].keylocked = FALSE]
  /\ th' = [th EXCEPT ![t].pc = "unlocking",
                      ![t].next = IF th[t].child = NullPage THEN "idle" ELSE "descend"]
  /\ UNCHANGED << rd, ops, root_dual_pointer, l3miss >>
  /\ RecordHistory

(* ------------------------------------------------------------------ *)
(* Writers: border split                                               *)
(* ------------------------------------------------------------------ *)
SlotOf(pg, i) ==
  [ slice |-> SliceAt(pg, i), rkl |-> RemLen(pg, i), paylen |-> PayloadLen(pg, i),
    owner |-> OwnerAt(pg, i), content |-> DataAt(pg, OffsetsRaw(pg, i)) ]

\* the slot indexes i..n-1 of the page that satisfy m, in slot order
SlotsWhere(pg, i, n, m) ==
  LET S == { j \in i..(n - 1) : m[j] }
  IN  [ k \in 1..Cardinality(S) |->
          CHOOSE x \in S : Cardinality({ y \in S : y < x }) = k - 1 ]

\* the 16-byte blocks the record of a slot takes when it is moved
MovedSize(sl) ==
  IF sl.rkl = kKeyLengthNextLayer THEN 1
  ELSE calculate_record_size(sl.rkl, sl.paylen) \div 16

\* the blocks taken by the first k of the moved slots
RECURSIVE MovedSizeSum(_, _, _)
MovedSizeSum(src, idxs, k) ==
  IF k = 0 THEN 0
  ELSE MovedSize(SlotOf(src, idxs[k])) + MovedSizeSum(src, idxs, k - 1)

\* the page with the slots of src listed in idxs (from the k-th on) packed
\* from the tail of data_, in the order of idxs
PackSlots(pg, src, idxs, k) ==
  LET n == Len(idxs)
      sl(j) == SlotOf(src, idxs[j])
      off(j) == (kDataSize \div 16) - MovedSizeSum(src, idxs, j)
      kept(j) == MovedSize(sl(j)) > 0 /\ sl(j).content # ZeroBlock
      blocks == { off(j) : j \in { x \in k..n : kept(x) } }
      last(b) == CHOOSE j \in k..n :
                   /\ kept(j) /\ off(j) = b
                   /\ \A x \in k..n : (kept(x) /\ off(x) = b) => x <= j
  IN  [ pg EXCEPT
          !.slices = [ j \in 1..n |-> sl(j).slice ],
          !.remaining_key_length = [ j \in 1..n |-> sl(j).rkl ],
          !.payload_length = [ j \in 1..n |-> sl(j).paylen ],
          !.offsets = [ j \in 1..n |-> off(j) ],
          !.owner_ids = [ j \in 1..n |-> sl(j).owner ],
          !.data = [ b \in blocks |-> sl(last(b)).content ] ]

Emptied(pg) ==
  [ pg EXCEPT !.slices = << >>, !.remaining_key_length = << >>, !.payload_length = << >>,
              !.offsets = << >>, !.owner_ids = << >>, !.data = << >> ]

SlotSlices(pg) == { SliceAt(pg, i) : i \in 0..(pg.ver.key_count - 1) }

\* the median slice of the slots; never the lowest one, so both sides keep slots
SplitSlice(pg) ==
  LET n == pg.ver.key_count
      S == SlotSlices(pg)
      lowest == CHOOSE s \in S : \A x \in S : s <= x
      below(s) == Cardinality({ i \in 0..(n - 1) : SliceAt(pg, i) < s })
      upto(s) == Cardinality({ i \in 0..(n - 1) : SliceAt(pg, i) <= s })
      median == CHOOSE s \in S : below(s) <= n \div 2 /\ n \div 2 < upto(s)
  IN  IF median # lowest THEN median
      ELSE CHOOSE s \in S \ { lowest } : \A x \in S \ { lowest } : s <= x

CanSplit(pgs, pg) == FreeFrames(pgs) # { } /\ Cardinality(SlotSlices(pg)) >= 2

\* faulty variant: the slots at the split slice itself are not moved
UpperSlots_above(pg, m) ==
  SlotsWhere(pg, 0, pg.ver.key_count,
             [i \in 0..(pg.ver.key_count - 1) |-> SliceAt(pg, i) > m])

UpperSlots(pg, m) ==
  SlotsWhere(pg, 0, pg.ver.key_count,
             [i \in 0..(pg.ver.key_count - 1) |-> SliceAt(pg, i) >= m])
\* faulty variant: the slots at the split slice stay in the original page
LowerSlots_through(pg, m) ==
  SlotsWhere(pg, 0, pg.ver.key_count,
             [i \in 0..(pg.ver.key_count - 1) |-> SliceAt(pg, i) <= m])
LowerSlots(pg, m) ==
  SlotsWhere(pg, 0, pg.ver.key_count,
             [i \in 0..(pg.ver.key_count - 1) |-> SliceAt(pg, i) < m])

\* the foster sibling: [split slice, the page's old high fence)
FosterOf(pg, m) ==
  LET shell == [ InitializedBorder(pg.ver.layer, m, pg.high_fence, 0, FALSE) EXCEPT
                   !.foster = pg.foster, !.ver.has_foster = pg.ver.has_foster,
                   !.ver.key_count = Len(UpperSlots(pg, m)) ]
  IN  PackSlots(shell, pg, UpperSlots(pg, m), 1)

\* faulty variant: the original page takes the upper range of the fences
SplitOriginal_raising_low(pg, m, f) ==
  LET shell == [ Emptied(pg) EXCEPT !.low_fence = m, !.foster = f,
                   !.ver.has_foster = 1, !.ver.key_count = Len(LowerSlots(pg, m)) ]
  IN  PackSlots(shell, pg, LowerSlots(pg, m), 1)

\* the page after the move: lower slots compacted, high fence narrowed
SplitOriginal(pg, m, f) ==
  LET shell == [ Emptied(pg) EXCEPT !.high_fence = m, !.foster = f,
                   !.ver.has_foster = 1, !.ver.key_count = Len(LowerSlots(pg, m)) ]
  IN  PackSlots(shell, pg, LowerSlots(pg, m), 1)

\* position of x in the sequence s
PosIn(s, x) == CHOOSE k \in 1..Len(s) : s[k] = x

\* under the re-taken lock: is the split still needed; set splitting
SetSplitting(t) ==
  /\ th[t].pc = "split_check"
  /\ LET pg == pages[th[t].page]
         rk == RemKey(th[t].key, th[t].layer)
         kc == pg.ver.key_count
         r == find_key_for_reserve(pg, 0, kc, SliceOf(rk), SuffixOf(rk), Len(rk))
     IN  IF \/ Locate(pages, th[t].page, SliceOf(rk)) # th[t].page
            \/ r.match_type # kNotFound
            \/ can_accomodate(pg, kc, Len(rk), th[t].cnt)
           THEN /\ th' = [th EXCEPT ![t].pc = "unlocking", ![t].next = "relocate"]
                /\ UNCHANGED pages
         ELSE IF ~CanSplit(pages, pg)
           THEN /\ th' = [th EXCEPT ![t].pc = "unlocking", ![t].next = "idle",
                                    ![t].result = "OutOfPageMemory"]
                /\ UNCHANGED pages
         ELSE /\ pages' = [pages EXCEPT ![th[t].page] = set_splitting(@)]
              /\ th' = [th EXCEPT ![t].pc = "split_move"]
  /\ UNCHANGED << rd, ops, root_dual_pointer, l3miss >>
  /\ RecordHistory

\* move the upper half to the foster sibling and compact the page; pending
\* inserters are forwarded to the new place of their record
SplitMoveTo(t, parent_lock) ==
  /\ th[t].pc = "split_move"
  /\ IF FreeFrames(pages) = { }
     THEN \* the pool has run out since the check: the split is given up
          /\ th' = [th EXCEPT ![t].pc = "unlocking", ![t].next = "idle",
                              ![t].result = "OutOfPageMemory"]
          /\ UNCHANGED pages
     ELSE
     \E m \in { SplitSlice(pages[th[t].page]) } :
     LET p == th[t].page
         pg == pages[p]
         f == NextFrame(pages)
         up == UpperSlots(pg, m)
         lo == LowerSlots(pg, m)
         moved(u) == u # t /\ th[u].pc = "pending" /\ th[u].page = p
     IN  /\ pages' = [pages EXCEPT ![f] = FosterOf(pg, m),
                                   ![p] = SplitOriginal(pg, m, f)]
         /\ th' = [ u \in Writers |->
                      IF u = t
                        THEN [th[u] EXCEPT
                               !.pc = IF /\ parent_lock = "holding"
                                         /\ pages[root_dual_pointer].page_type
                                              = "intermediate"
                                        THEN "install_lock" ELSE "unlocking",
                               !.next = IF /\ parent_lock = "released"
                                           /\ pages[root_dual_pointer].page_type
                                                = "intermediate"
                                          THEN "install_lock" ELSE "relocate",
                               !.child = IF /\ parent_lock # "none"
                                            /\ pages[root_dual_pointer].page_type
                                                 = "intermediate"
                                           THEN f ELSE @]
                      ELSE IF moved(u)
                        THEN (IF SliceAt(pg, th[u].index) >= m
                                THEN [th[u] EXCEPT !.page = f,
                                                   !.index = PosIn(up, th[u].index) - 1]
                                ELSE [th[u] EXCEPT !.index = PosIn(lo, th[u].index) - 1])
                      ELSE th[u] ]
  /\ UNCHANGED << rd, ops, root_dual_pointer, l3miss >>
  /\ RecordHistory

\* the border split where the page has no parent to tell of the sibling
SplitMove(t) == SplitMoveTo(t, "none")

(* ------------------------------------------------------------------ *)
(* The optimistic reader                                               *)
(* ------------------------------------------------------------------ *)
\* v0 == v1 on every bit but the lock bit
SameVersion(v, w) == [v EXCEPT !.locked = 0] = [w EXCEPT !.locked = 0]

\* v0 = stable(); the reader settles on a slot below v0.key_count
ReadBegin(p, i) ==
  /\ rd.pc = "idle"
  /\ pages[p].allocated
  /\ \E v \in get_stable_version(pages[p]) :
       /\ i < v.key_count
       /\ rd' = [IdleReader EXCEPT !.pc = "meta", !.page = p, !.idx = i, !.v0 = v]
  /\ hist' = { Content(pages[p], i) }
  /\ UNCHANGED << pages, th, ops, root_dual_pointer, l3miss >>

\* loads slices_[i] and remaining_key_length_[i]
ReadMeta ==
  /\ rd.pc = "meta"
  /\ rd' = [rd EXCEPT !.pc = "rec", !.meta = Content(pages[rd.page], rd.idx).meta]
  /\ UNCHANGED << pages, th, hist, ops, root_dual_pointer, l3miss >>

\* loads the record of slot i
ReadRecord ==
  /\ rd.pc = "rec"
  /\ rd' = [rd EXCEPT !.pc = "v1", !.rec = Content(pages[rd.page], rd.idx).rec]
  /\ UNCHANGED << pages, th, hist, ops, root_dual_pointer, l3miss >>

\* v1 = stable(); the read is accepted when v0 == v1
ReadEnd ==
  /\ rd.pc = "v1"
  /\ \E v \in get_stable_version(pages[rd.page]) :
       rd' = [rd EXCEPT !.pc = "done", !.v1 = v, !.ok = SameVersion(rd.v0, v)]
  /\ UNCHANGED << pages, th, hist, ops, root_dual_pointer, l3miss >>

ReadReset ==
  /\ rd.pc = "done"
  /\ rd' = IdleReader
  /\ hist' = { }
  /\ UNCHANGED << pages, th, ops, root_dual_pointer, l3miss >>

\* a thread calls get_stable_version() on a page ...
StableCall(p) ==
  /\ rd.pc = "idle"
  /\ pages[p].allocated
  /\ rd' = [IdleReader EXCEPT !.pc = "stable", !.page = p]
  /\ UNCHANGED << pages, th, hist, ops, root_dual_pointer, l3miss >>

\* ... and the call returns once the page is neither inserting nor splitting
StableReturn ==
  /\ rd.pc = "stable"
  /\ get_stable_version(pages[rd.page]) # { }
  /\ rd' = IdleReader
  /\ UNCHANGED << pages, th, hist, ops, root_dual_pointer, l3miss >>

(* ------------------------------------------------------------------ *)
(* The index operations on the record of a key                         *)
(* ------------------------------------------------------------------ *)
\* the point lookup: in each layer, the border page that covers the slice is
\* searched with find_key under a stable version; a next-layer slot sends the
\* lookup to the next layer with the key advanced by 8 bytes
RECURSIVE LookupRecord(_, _, _, _)
LookupRecord(pgs, root, key, layer) ==
  LET rk == RemKey(key, layer)
      p == Locate(pgs, root, SliceOf(rk))
      pg == pgs[p]
      stable == get_stable_version(pg)
      i == find_key(pg, CHOOSE v \in stable : TRUE, SliceOf(rk), SuffixOf(rk), Len(rk))
      at(index, found) == [page |-> p, index |-> index, layer |-> layer, found |-> found]
  IN  IF stable = { } THEN at(0, "spin")
      ELSE IF i = kMaxKeys THEN at(0, "KeyNotFound")
      ELSE IF ~does_point_to_layer(pg, i) THEN at(i, "found")
      ELSE IF get_next_layer(pg, i) = NullPage
        THEN \* the length says next layer and the pointer is not stored yet
             at(i, "fault")
      ELSE LookupRecord(pgs, get_next_layer(pg, i), key, layer + 1)

\* the record the lookup ends at is there and not logically deleted
IsLive(pgs, r) == r.found = "found" /\ ~OwnerAt(pgs[r.page], r.index).deleted

\* the range-lock entry of a miss: the page the key would be in, the slices
\* next to the key's slice in it (or its fences) and the version observed
RangeEntry(pgs, r, k) ==
  LET pg == pgs[r.page]
      slice == SliceOf(RemKey(k, r.layer))
      v == CHOOSE w \in get_stable_version(pg) : TRUE
      stored == { SliceAt(pg, i) : i \in 0..(v.key_count - 1) }
      below == { x \in stored : x <= slice } \cup { pg.low_fence }
      above == { x \in stored : x >= slice } \cup { pg.high_fence }
  IN  [ kind |-> "range", page |-> r.page,
        low |-> CHOOSE x \in below : \A y \in below : y <= x,
        high |-> CHOOSE x \in above : \A y \in above : x <= y,
        observed |-> v ]

\* the read set of a call that ended at r: the range-lock entry on a miss
MissEntries(pgs, r, k) ==
  IF r.found \in { "KeyNotFound", "found" } /\ ~IsLive(pgs, r)
    THEN { RangeEntry(pgs, r, k) }
    ELSE { }

\* insert_record with the payload bytes p
InsertRecord(t, k, p) ==
  /\ th[t].pc = "idle"
  /\ ops < MaxOps
  /\ th' = [th EXCEPT ![t] = [ IdleWriter EXCEPT
               !.pc = "locking", !.op = "insert", !.key = k, !.cnt = Len(p),
               !.pay = p,
               !.root = RootPage, !.page = Locate(pages, RootPage, SliceOf(k)) ]]
  /\ ops' = ops + 1
  /\ UNCHANGED << pages, rd, hist, root_dual_pointer, l3miss >>

\* get_record with a buffer of capacity bytes: the payload and its length,
\* TooSmallPayloadBuffer and the length when the buffer is smaller than the
\* payload, or KeyNotFound when the key is absent or its record is logically
\* deleted; the register cnt keeps the capacity that was passed in
GetRecord(t, k, capacity) ==
  /\ th[t].pc = "idle"
  /\ \E r \in { LookupRecord(pages, root_dual_pointer, k, 0) } :
     LET pg == pages[r.page]
         live == IsLive(pages, r)
     IN  /\ r.found # "spin"
         /\ th' = [th EXCEPT ![t] = [ IdleWriter EXCEPT
                      !.op = "get", !.key = k, !.cnt = capacity,
                      !.result = IF r.found = "fault" THEN "fault"
                                 ELSE IF ~live THEN "KeyNotFound"
                                 ELSE IF capacity < PayloadLen(pg, r.index)
                                   THEN "TooSmallPayloadBuffer"
                                 ELSE "ok",
                      !.got = IF live /\ capacity >= PayloadLen(pg, r.index)
                                THEN PayloadPrefix(DataAt(pg, OffsetsRaw(pg, r.index)).pay,
                                                   PayloadLen(pg, r.index))
                                ELSE << >>,
                      !.cap = IF live THEN PayloadLen(pg, r.index) ELSE 0,
                      !.rset = MissEntries(pages, r, k) ]]
  /\ UNCHANGED << pages, rd, hist, ops, root_dual_pointer, l3miss >>

\* delete_record in a transaction that commits: the record found for the key
\* is flagged deleted (the slot stays), or KeyNotFound
DeleteRecord(t, k) ==
  /\ th[t].pc = "idle"
  /\ ops < MaxOps
  /\ \E r \in { LookupRecord(pages, RootPage, k, 0) } :
     LET live == IsLive(pages, r)
     IN  /\ r.found \notin { "spin", "fault" }
         /\ live => ~OwnerAt(pages[r.page], r.index).keylocked
         /\ pages' = IF live
                       THEN [pages EXCEPT ![r.page].owner_ids =
                               SetAt(@, r.index, [deleted |-> TRUE, keylocked |-> FALSE],
                                     ZeroOwnerId)]
                       ELSE pages
         /\ th' = [th EXCEPT ![t] = [ IdleWriter EXCEPT
                      !.op = "delete", !.key = k,
                      !.result = IF live THEN "committed" ELSE "KeyNotFound",
                      !.rset = MissEntries(pages, r, k) ]]
  /\ ops' = ops + 1
  /\ UNCHANGED << rd, root_dual_pointer, l3miss >>
  /\ RecordHistory

\* overwrite_record in a transaction that commits: the bytes q replace the
\* payload from byte off on, or KeyNotFound, or TooShortPayload when
\* off + |q| is beyond the payload
OverwriteRecord(t, k, off, q) ==
  /\ th[t].pc = "idle"
  /\ ops < MaxOps
  /\ \E r \in { LookupRecord(pages, RootPage, k, 0) } :
     LET live == IsLive(pages, r)
         pg == pages[r.page]
         b == OffsetsRaw(pg, r.index)
         fits == off + Len(q) <= PayloadLen(pg, r.index)
     IN  /\ r.found \notin { "spin", "fault" }
         /\ live => ~OwnerAt(pg, r.index).keylocked
         /\ pages' = IF live /\ fits
                       THEN [pages EXCEPT ![r.page].data =
                               SetBlock(@, b, [DataAt(pg, b) EXCEPT
                                                 !.pay = WritePayload(@, off, q)])]
                       ELSE pages
         /\ th' = [th EXCEPT ![t] = [ IdleWriter EXCEPT
                      !.op = "overwrite", !.key = k, !.off = off, !.pay = q,
                      !.result = IF ~live THEN "KeyNotFound"
                                 ELSE IF fits THEN "committed" ELSE "TooShortPayload",
                      !.rset = MissEntries(pages, r, k) ]]
  /\ ops' = ops + 1
  /\ UNCHANGED << rd, root_dual_pointer, l3miss >>
  /\ RecordHistory

(* ------------------------------------------------------------------ *)
(* Intermediate pages: routing of a slice                              *)
(* ------------------------------------------------------------------ *)
\* the slices of the routing runs
RouteSlices == 0..(MaxSeparators + 1)

\* the separator arrays and key counts a page or mini-page can have: the
\* separators below key_count are strictly increasing, the entries from
\* key_count on are whatever was left there
RoutingTables ==
  { r \in [ key_count : 0..MaxSeparators,
            separators : [1..MaxSeparators -> RouteSlices] ] :
      \A i, j \in 1..r.key_count : i < j => r.separators[i] < r.separators[j] }

\* an intermediate page with the routing table top; each of its mini-pages
\* holds the routing table mini
IntermediatePage(top, mini) ==
  [ separators |-> top.separators,
    mini_pages |-> [ m \in 0..MaxSeparators |->
                       [ mini_version |-> [InitialVersion(0, 0) EXCEPT
                                             !.key_count = mini.key_count],
                         separators |-> mini.separators ] ] ]
    @@ [ FreeFrame EXCEPT !.allocated = TRUE, !.storage_id = 1,
                          !.page_type = "intermediate",
                          !.low_fence = kInfimumSlice, !.high_fence = kSupremumSlice,
                          !.ver = [InitialVersion(0, 1) EXCEPT
                                     !.key_count = top.key_count] ]

\* the root of the storage is an intermediate page
InitRoute ==
  /\ \E top \in RoutingTables, mini \in RoutingTables :
       pages = [ p \in PageIds |->
                   IF p = RootPage THEN IntermediatePage(top, mini) ELSE FreeFrame ]
  /\ th = [ t \in Writers |-> IdleWriter ]
  /\ rd = IdleReader
  /\ hist = { }
  /\ ops = 0
  /\ root_dual_pointer = RootPage
  /\ l3miss = NoExperiment

\* the descent takes the stable version of the page and finds the mini-page
RouteMinipage(slice) ==
  /\ rd.pc = "idle"
  /\ \E stable \in get_stable_version(pages[RootPage]) :
       rd' = [ IdleReader EXCEPT
                 !.pc = "minipage", !.page = RootPage, !.v0 = stable,
                 !.meta = << slice, find_minipage(pages[RootPage], stable, slice) >> ]
  /\ UNCHANGED << pages, th, hist, ops, root_dual_pointer, l3miss >>

\* it takes the stable version of the mini-page and finds the pointer
RoutePointer ==
  /\ rd.pc = "minipage"
  /\ LET mini == pages[rd.page].mini_pages[rd.meta[2]]
     IN  \E stable \in get_stable_version([ ver |-> mini.mini_version ]) :
           rd' = [ rd EXCEPT !.pc = "pointer", !.v1 = stable,
                             !.idx = find_pointer(mini, stable, rd.meta[1]) ]
  /\ UNCHANGED << pages, th, hist, ops, root_dual_pointer, l3miss >>

\* the descent leaves the page
RouteReturn ==
  /\ rd.pc = "pointer"
  /\ rd' = IdleReader
  /\ UNCHANGED << pages, th, hist, ops, root_dual_pointer, l3miss >>

(* ------------------------------------------------------------------ *)
(* Root replacement and the foster pointer in the parent               *)
(* ------------------------------------------------------------------ *)
NoSeparators == [ i \in 1..MaxSeparators |-> 0 ]

\* a mini-page without separators and pointers
EmptyMiniPage ==
  [ mini_version |-> InitialVersion(0, 0), separators |-> NoSeparators,
    pointers |-> [ i \in 1..(MaxSeparators + 1) |-> NullPage ] ]

\* a new root of a layer with two children: mini-page 0 holds the separator,
\* left for the slices below it and right for the others
InitializedIntermediate(layer, low, high, left, separator, right) ==
  [ separators |-> NoSeparators,
    mini_pages |-> [ m \in 0..MaxSeparators |->
                       IF m = 0
                         THEN [ EmptyMiniPage EXCEPT !.mini_version.key_count = 1,
                                                     !.separators[1] = separator,
                                                     !.pointers[1] = left,
                                                     !.pointers[2] = right ]
                         ELSE EmptyMiniPage ] ]
    @@ [ FreeFrame EXCEPT !.allocated = TRUE, !.storage_id = 1,
                          !.page_type = "intermediate",
                          !.low_fence = low, !.high_fence = high,
                          !.ver = InitialVersion(layer, 1) ]

\* the mini-page with the separator and the pointer to the right of it put in
\* after pointer idx
InsertPointer(mini, idx, separator, pointer) ==
  LET kc == mini.mini_version.key_count
  IN  [ mini EXCEPT
          !.mini_version.key_count = kc + 1,
          !.separators = [ i \in 1..MaxSeparators |->
                             IF i <= idx THEN mini.separators[i]
                             ELSE IF i = idx + 1 THEN separator
                             ELSE mini.separators[i - 1] ],
          !.pointers = [ i \in 1..(MaxSeparators + 1) |->
                           IF i <= idx + 1 THEN mini.pointers[i]
                           ELSE IF i = idx + 2 THEN pointer
                           ELSE mini.pointers[i - 1] ] ]

\* the page after the insert of key k with a payload of c bytes has committed
CommittedInsert(pg, k, c) ==
  LET i == pg.ver.key_count
      made == reserve_record_space([pg EXCEPT !.ver.key_count = i + 1], i,
                                   InitialOwnerId, SliceOf(k), SuffixOf(k), Len(k), c)
      b == OffsetsRaw(made, i)
  IN  [ made EXCEPT
          !.owner_ids = SetAt(@, i, ZeroOwnerId, ZeroOwnerId),
          !.payload_length = SetAt(@, i, c, 0),
          !.data = IF c > 0
                     THEN SetBlock(@, b, [DataAt(made, b) EXCEPT
                                            !.pay = WritePayload(@, 0, << 1 >>)])
                     ELSE @ ]

\* the root border page after the committed inserts of KZ and KS with large
\* payloads: a third record of that size does not fit
TreeBorder ==
  CommittedInsert(
    CommittedInsert(InitializedBorder(0, kInfimumSlice, kSupremumSlice, 1, FALSE),
                    KZ, PayloadBig),
    KS, PayloadBig)

InitTree ==
  /\ pages = [ p \in PageIds |->
                 IF p = SnapshotPage THEN SnapshotBorder
                 ELSE IF p = RootPage THEN TreeBorder
                 ELSE FreeFrame ]
  /\ th = [ t \in Writers |-> IdleWriter ]
  /\ rd = IdleReader
  /\ hist = { }
  /\ ops = 0
  /\ root_dual_pointer = RootPage
  /\ l3miss = NoExperiment

\* insert_record begins at the root pointer: a root border page that has a
\* foster sibling is first replaced by a new root
BeginFromRoot(t, k, c) ==
  /\ th[t].pc = "idle"
  /\ ops < MaxOps
  /\ \E stable \in get_stable_version(pages[root_dual_pointer]) :
       th' = [th EXCEPT ![t] = [ IdleWriter EXCEPT
                !.op = "insert", !.key = k, !.cnt = c,
                !.pay = IF c > 0 THEN << 1 >> ELSE << >>,
                !.root = root_dual_pointer,
                !.pc = IF /\ pages[root_dual_pointer].page_type = "border"
                          /\ stable.has_foster = 1
                         THEN "grow_allocate" ELSE "locking",
                !.page = Locate(pages, root_dual_pointer, SliceOf(k)) ]]
  /\ ops' = ops + 1
  /\ UNCHANGED << pages, rd, hist, root_dual_pointer, l3miss >>

\* allocate the new root: an intermediate page over the old root and its
\* foster sibling, covering the whole range of the layer
GrowAllocate(t) ==
  /\ th[t].pc = "grow_allocate"
  /\ IF FreeFrames(pages) = { }
       THEN /\ th' = [th EXCEPT ![t] = IdleWriter]
            /\ UNCHANGED pages
       ELSE LET f == NextFrame(pages)
                old == pages[th[t].root]
            IN  /\ pages' = [pages EXCEPT ![f] =
                      InitializedIntermediate(old.ver.layer, kInfimumSlice, kSupremumSlice,
                                              th[t].root, old.high_fence, old.foster)]
                /\ th' = [th EXCEPT ![t].pc = "grow_cas", ![t].child = f]
  /\ UNCHANGED << rd, ops, root_dual_pointer, l3miss >>
  /\ RecordHistory

\* CAS of the root pointer from the old root to the new one; the loser gives
\* its page back; both go on with the descent from the root pointer
GrowCas(t) ==
  /\ th[t].pc = "grow_cas"
  /\ IF root_dual_pointer = th[t].root
       THEN /\ root_dual_pointer' = th[t].child
            /\ UNCHANGED pages
       ELSE /\ pages' = [pages EXCEPT ![th[t].child] = FreeFrame]
            /\ UNCHANGED root_dual_pointer
  /\ th' = [th EXCEPT ![t].pc = "relocate", ![t].child = NullPage,
                      ![t].root = root_dual_pointer']
  /\ UNCHANGED << rd, ops, l3miss >>
  /\ RecordHistory

\* faulty variant: the splitter goes to the parent with the lock of the child
SplitMoveInstall_holding(t) == SplitMoveTo(t, "holding")

\* the border split of a page below an intermediate page: the splitter lets go
\* of the page (the sibling is reachable through the foster pointer), then
\* tells the parent of the sibling
SplitMoveInstall(t) == SplitMoveTo(t, "released")

\* re-locate the parent and take the lock of the mini-page the split slice
\* (the low fence of the sibling) belongs to
LockMini(t) ==
  /\ th[t].pc = "install_lock"
  /\ \E stable \in get_stable_version(pages[root_dual_pointer]) :
       LET parent == root_dual_pointer
           m == find_minipage(pages[parent], stable, pages[th[t].child].low_fence)
       IN  /\ \E locked \in lock_version([ ver |-> pages[parent].mini_pages[m].mini_version ]) :
                pages' = [pages EXCEPT ![parent].mini_pages[m].mini_version = locked.ver]
           /\ th' = [th EXCEPT ![t].pc = "install_store", ![t].parent = parent,
                               ![t].mini = m]
  /\ UNCHANGED << rd, ops, root_dual_pointer, l3miss >>
  /\ RecordHistory

\* put the split slice and the pointer to the foster sibling into the mini-page
InstallPointer(t) ==
  /\ th[t].pc = "install_store"
  /\ LET mini == pages[th[t].parent].mini_pages[th[t].mini]
         separator == pages[th[t].child].low_fence
         idx == find_pointer(mini, mini.mini_version, separator)
     IN  pages' = [pages EXCEPT ![th[t].parent].mini_pages[th[t].mini] =
                     IF mini.mini_version.key_count < MaxSeparators
                       THEN InsertPointer(mini, idx, separator, th[t].child)
                       ELSE mini]
  /\ th' = [th EXCEPT ![t].pc = "install_unlock"]
  /\ UNCHANGED << rd, ops, root_dual_pointer, l3miss >>
  /\ RecordHistory

\* release the lock of the mini-page
UnlockMini(t) ==
  /\ th[t].pc = "install_unlock"
  /\ pages' = [pages EXCEPT ![th[t].parent].mini_pages[th[t].mini].mini_version =
                              unlock_version([ ver |-> @ ]).ver]
  /\ th' = [th EXCEPT ![t].pc = IF th[t].holds = NullPage
                                     THEN "relocate" ELSE "unlocking",
                      ![t].next = "relocate", ![t].child = NullPage]
  /\ UNCHANGED << rd, ops, root_dual_pointer, l3miss >>
  /\ RecordHistory

(* ------------------------------------------------------------------ *)
(* Hash ranges (hash_id.hpp)                                            *)
(* ------------------------------------------------------------------ *)
HashValues == 0..HashMax

\* HashRange(begin, end): begin is inclusive, end is exclusive
HashRange(begin, end) == [ begin_ |-> begin, end_ |-> end ]

\* the ranges of the runs: begin <= end, the empty ranges among them
HashRanges ==
  { r \in [ begin_ : HashValues, end_ : HashValues ] : r.begin_ <= r.end_ }

\* HashRange::contains
contains(range, hash) == hash >= range.begin_ /\ hash < range.end_

\* HashRange::overlaps
overlaps(range, other) ==
  \/ contains(range, other.begin_)
  \/ contains(range, other.end_)
  \/ contains(other, range.begin_)

\* two ranges are given
InitHash ==
  /\ pages = [ p \in PageIds |-> FreeFrame ]
  /\ th = [ t \in Writers |-> IdleWriter ]
  /\ \E a \in HashRanges, b \in HashRanges :
       rd = [ pc |-> "ranges", range |-> a, other |-> b,
              forward |-> FALSE, backward |-> FALSE ]
  /\ hist = { }
  /\ ops = 0
  /\ root_dual_pointer = NullPage
  /\ l3miss = NoExperiment

\* range.overlaps(other) and other.overlaps(range) are evaluated
CallOverlaps ==
  /\ rd.pc = "ranges"
  /\ rd' = [ rd EXCEPT !.pc = "overlaps",
                       !.forward = overlaps(rd.range, rd.other),
                       !.backward = overlaps(rd.other, rd.range) ]
  /\ UNCHANGED << pages, th, hist, ops, root_dual_pointer, l3miss >>

(* ------------------------------------------------------------------ *)
(* L3-miss experiment (l3miss_multip_experiment.cpp)                    *)
(* ------------------------------------------------------------------ *)
NodeIds == 0..(MaxNodes - 1)
CoreIds == 0..(MaxCoresPerNode - 1)

\* main() after the channel is set up and before the first fork(): the three
\* fields of ProcessChannel are zero; no child and no worker thread exists
StartedExperiment(n, c) ==
  [ pc |-> "fork", nodes |-> n, cores_per_node |-> c,
    process_channel |-> [ initialized_count |-> 0, experiment_started |-> FALSE,
                          exit_count |-> 0 ],
    node |-> 0, pids |-> << >>, exitted |-> << >>, ret |-> -1,
    child |-> [ k \in NodeIds |-> "none" ],
    worker |-> [ k \in NodeIds |-> [ j \in CoreIds |-> "none" ] ] ]

InitExperiment ==
  /\ pages = [ p \in PageIds |-> FreeFrame ]
  /\ th = [ t \in Writers |-> IdleWriter ]
  /\ rd = IdleReader
  /\ hist = { }
  /\ ops = 0
  /\ root_dual_pointer = NullPage
  /\ \E n \in 1..MaxNodes, c \in 1..MaxCoresPerNode : l3miss = StartedExperiment(n, c)

TreeUnchanged == UNCHANGED << pages, th, rd, hist, ops, root_dual_pointer >>

\* main: one pass of the fork loop; fork() fails (main returns 1) or the child
\* starts process_main(node) and the parent records its pid
Fork ==
  /\ l3miss.pc = "fork"
  /\ l3miss.node < l3miss.nodes
  /\ \/ l3miss' = [ l3miss EXCEPT !.pc = "returned", !.ret = 1 ]
     \/ l3miss' = [ l3miss EXCEPT !.child[l3miss.node] = "process_main",
                                  !.pids = Append(@, l3miss.node),
                                  !.exitted = Append(@, FALSE),
                                  !.node = @ + 1 ]
  /\ TreeUnchanged

\* main: the fork loop ends
ForkDone ==
  /\ l3miss.pc = "fork"
  /\ l3miss.node = l3miss.nodes
  /\ l3miss' = [ l3miss EXCEPT !.pc = "wait_initialized" ]
  /\ TreeUnchanged

\* faulty variant: the parent waits for one registration per node
WaitInitialized_per_node ==
  /\ l3miss.pc = "wait_initialized"
  /\ ~(l3miss.process_channel.initialized_count < l3miss.nodes)
  /\ l3miss' = [ l3miss EXCEPT !.pc = "store_started" ]
  /\ TreeUnchanged

\* main: while (initialized_count < nodes * cores_per_node) sleep; the step is
\* the read that ends the loop
WaitInitialized ==
  /\ l3miss.pc = "wait_initialized"
  /\ ~(l3miss.process_channel.initialized_count
         < l3miss.nodes * l3miss.cores_per_node)
  /\ l3miss' = [ l3miss EXCEPT !.pc = "store_started" ]
  /\ TreeUnchanged

\* main: experiment_started.store(true)
StoreStarted ==
  /\ l3miss.pc = "store_started"
  /\ l3miss' = [ l3miss EXCEPT !.process_channel.experiment_started = TRUE,
                               !.pc = "wait_exit" ]
  /\ TreeUnchanged

\* the process of the node has ended: a waitpid() returns its pid
Terminated(node) == l3miss.child[node] \in { "exited", "killed" }

\* main: the test of while (exit_count < nodes): out of the loop and return 0,
\* or the sleep
WaitExit ==
  /\ l3miss.pc = "wait_exit"
  /\ l3miss' = IF l3miss.process_channel.exit_count < l3miss.nodes
                 THEN [ l3miss EXCEPT !.pc = "poll" ]
                 ELSE [ l3miss EXCEPT !.pc = "returned", !.ret = 0 ]
  /\ TreeUnchanged

\* main: the loop over pids after the sleep: a child already seen is skipped;
\* waitpid(pid, WNOHANG) returns 0 for a live child and the pid for one that
\* has ended, which is then marked (waitpid cannot fail for an own child that
\* was not waited for yet); then back to the test of the while loop
Poll ==
  /\ l3miss.pc = "poll"
  /\ l3miss' = [ l3miss EXCEPT
                   !.exitted = [ k \in 1..Len(l3miss.pids) |->
                                   l3miss.exitted[k] \/ Terminated(l3miss.pids[k]) ],
                   !.pc = "wait_exit" ]
  /\ TreeUnchanged

MainStep ==
  \/ Fork
  \/ ForkDone
  \/ WaitInitialized
  \/ StoreStarted
  \/ WaitExit
  \/ Poll

\* process_main: the threads are launched, one per core
LaunchThreads(node) ==
  /\ l3miss.pc # "none"
  /\ l3miss.child[node] = "process_main"
  /\ l3miss' = [ l3miss EXCEPT
                   !.child[node] = "join",
                   !.worker[node] = [ j \in CoreIds |->
                                        IF j < l3miss.cores_per_node
                                          THEN "main_impl" ELSE "none" ] ]
  /\ TreeUnchanged

\* process_main: every join() has returned
JoinThreads(node) ==
  /\ l3miss.pc # "none"
  /\ l3miss.child[node] = "join"
  /\ \A j \in CoreIds : l3miss.worker[node][j] \in { "none", "returned" }
  /\ l3miss' = [ l3miss EXCEPT !.child[node] = "ended" ]
  /\ TreeUnchanged

\* process_main: ++exit_count; return 0, the process exits
IncrementExitCount(node) ==
  /\ l3miss.pc # "none"
  /\ l3miss.child[node] = "ended"
  /\ l3miss' = [ l3miss EXCEPT !.process_channel.exit_count = @ + 1,
                               !.child[node] = "exited" ]
  /\ TreeUnchanged

ChildStep(node) ==
  \/ LaunchThreads(node)
  \/ JoinThreads(node)
  \/ IncrementExitCount(node)

\* a child process ends before its ++exit_count: it is killed or it crashes
ChildDies(node) ==
  /\ l3miss.pc # "none"
  /\ l3miss.child[node] \in { "process_main", "join", "ended" }
  /\ l3miss' = [ l3miss EXCEPT !.child[node] = "killed" ]
  /\ TreeUnchanged

\* the threads of a process run while the process does
Running(node, core) ==
  /\ l3miss.pc # "none"
  /\ l3miss.child[node] = "join"

\* main_impl: ++initialized_count
Register(node, core) ==
  /\ Running(node, core)
  /\ l3miss.worker[node][core] = "main_impl"
  /\ l3miss' = [ l3miss EXCEPT !.process_channel.initialized_count = @ + 1,
                               !.worker[node][core] = "spin" ]
  /\ TreeUnchanged

\* main_impl: while (experiment_started.load() == false) continue; the step is
\* the load that ends the loop
SeeStarted(node, core) ==
  /\ Running(node, core)
  /\ l3miss.worker[node][core] = "spin"
  /\ l3miss.process_channel.experiment_started
  /\ l3miss' = [ l3miss EXCEPT !.worker[node][core] = "run" ]
  /\ TreeUnchanged

\* main_impl: run() returns, the result is printed and the thread ends
RunReturns(node, core) ==
  /\ Running(node, core)
  /\ l3miss.worker[node][core] = "run"
  /\ l3miss' = [ l3miss EXCEPT !.worker[node][core] = "returned" ]
  /\ TreeUnchanged

WorkerStep(node, core) ==
  \/ Register(node, core)
  \/ SeeStarted(node, core)
  \/ RunReturns(node, core)

(* ------------------------------------------------------------------ *)
(* Specifications                                                      *)
(* ------------------------------------------------------------------ *)
\* one step of writer t; its inserts are drawn from Ops (key, payload size)
\* and its transactions end as Ends allows (TRUE commits, FALSE aborts)
WriterStep(t, Ops, Ends) ==
  \/ \E o \in Ops : BeginInsert(t, o[1], o[2])
  \/ BeginTouchSnapshot(t)
  \/ LockPage(t)
  \/ Rescan(t)
  \/ SetInserting(t)
  \/ ReserveRecordSpace(t)
  \/ UnlockPage(t)
  \/ Relocate(t)
  \/ Descend(t)
  \/ \E commit \in Ends : FinishXct(t, commit)
  \/ KeyLock(t)
  \/ CreateLayer(t)
  \/ SetNextLayerLength(t)
  \/ SetNextLayerPointer(t)
  \/ KeyUnlock(t)
  \/ SetSplitting(t)
  \/ SplitMove(t)

ReaderStep ==
  \/ \E p \in PageIds, i \in 0..(kMaxKeys - 1) : ReadBegin(p, i)
  \/ ReadMeta
  \/ ReadRecord
  \/ ReadEnd
  \/ ReadReset

\* one writer, every key: the pages as sequences of inserts leave them
AllOps == Keys \X PayloadCounts
Next == \E t \in { "w1" } : WriterStep(t, AllOps, { TRUE })
Spec == Init /\ [][Next]_vars

\* two writers that contend for the page locks
ContendedOps == { << KA, PayloadBig >>, << KB, 0 >>, << KZ, PayloadBig >>,
                  << KS, PayloadBig >> }
NextWriters == \E t \in Writers : WriterStep(t, ContendedOps, { TRUE })
SpecWriters == Init /\ [][NextWriters]_vars

\* one writer whose inserts include a key of 255 bytes: the longest key whose
\* length the 8-bit remaining length of reserve_record_space can be passed
KLong == [i \in 1..kKeyLengthNextLayer |-> 0]
LongOps == AllOps \cup { << KLong, 0 >> }
NextLong == \E t \in { "w1" } : WriterStep(t, LongOps, { TRUE })
SpecLong == Init /\ [][NextLong]_vars

\* one writer whose keys share one slice with lengths 1, 8 and 9, so that the
\* searches meet slots of the slice that are shorter than, as long as and
\* longer than a slice, and next-layer pointers
K8 == Prefix1
SearchOps == { << KS, 0 >>, << K8, 0 >>, << KA, 0 >>, << KB, 0 >>,
               << KA, PayloadBig >>, << KZ, PayloadBig >>, << KSup, PayloadBig >> }
NextSearch == \E t \in { "w1" } : WriterStep(t, SearchOps, { TRUE })
SpecSearch == Init /\ [][NextSearch]_vars

\* one writer on a root page that is empty, one slot short of full, or full;
\* payloads that fill the data area exactly and that exceed it by one byte
PayloadExact == kDataSize
PayloadOver == kDataSize + 1
EdgeOps ==
  { << KZ, 0 >>, << KS, 0 >>, << KA, 0 >>, << KB, 0 >>, << KS, PayloadBig >>,
    << KA, PayloadBig >>, << KZ, PayloadExact >>, << KZ, PayloadOver >> }
NextEdge == \E t \in { "w1" } : WriterStep(t, EdgeOps, { TRUE })
SpecEdge == InitEdge /\ [][NextEdge]_vars

\* one writer and the optimistic reader
NextReader ==
  \/ \E t \in { "w1" } : WriterStep(t, ContendedOps, { TRUE })
  \/ ReaderStep
SpecReader == Init /\ [][NextReader]_vars

\* one client that inserts, deletes and overwrites in transactions that
\* commit or abort, and a second thread that reads keys with get_record
ApiKeys == { KS, KA }
ApiPayloads == { << 1, 2 >>, << 2 >> }
ApiOffsets == 0..1
ApiCapacities == { PayloadRest }
ApiInserts == { << KZ, PayloadBig >>, << KSup, PayloadRest >>, << KB, 0 >> }
ClientStep(t) ==
  \/ \E k \in ApiKeys, p \in ApiPayloads : InsertRecord(t, k, p)
  \/ \E k \in ApiKeys \cup { KC } : DeleteRecord(t, k)
  \/ \E k \in ApiKeys, off \in ApiOffsets : OverwriteRecord(t, k, off, << 2 >>)
NextApi ==
  \/ \E t \in { "w1" } : WriterStep(t, ApiInserts, { TRUE, FALSE })
  \/ \E t \in { "w1" } : ClientStep(t)
  \/ \E k \in ApiKeys \cup { KC }, c \in ApiCapacities : GetRecord("w2", k, c)
SpecApi == Init /\ [][NextApi]_vars

\* one writer, and a second thread that reads records into buffers that are
\* too small and large enough for the stored payloads
GetKeys == { KS, KA }
GetCapacities == { 1, PayloadBig }
NextGet ==
  \/ \E t \in { "w1" } : WriterStep(t, ContendedOps, { TRUE })
  \/ \E k \in GetKeys, c \in GetCapacities : GetRecord("w2", k, c)
SpecGet == Init /\ [][NextGet]_vars

\* searches that are routed through an intermediate root page
NextRoute ==
  \/ \E slice \in RouteSlices : RouteMinipage(slice)
  \/ RoutePointer
  \/ RouteReturn
SpecRoute == InitRoute /\ [][NextRoute]_vars

\* two writers on a tree whose root border page is one insert short of a
\* split: the root is split and replaced, and a child is split below it
TreeOps == { << KSup, PayloadBig >>, << KS2, PayloadBig >>, << KS, 0 >> }
TreeStep(t) ==
  \/ \E o \in TreeOps : BeginFromRoot(t, o[1], o[2])
  \/ GrowAllocate(t)
  \/ GrowCas(t)
  \/ LockPage(t)
  \/ Rescan(t)
  \/ SetInserting(t)
  \/ ReserveRecordSpace(t)
  \/ UnlockPage(t)
  \/ Relocate(t)
  \/ \E commit \in { TRUE } : FinishXct(t, commit)
  \/ SetSplitting(t)
  \/ SplitMoveInstall(t)
  \/ LockMini(t)
  \/ InstallPointer(t)
  \/ UnlockMini(t)
NextTree == \E t \in Writers : TreeStep(t)
SpecTree == InitTree /\ [][NextTree]_vars

\* overlaps of two hash ranges
NextHash == CallOverlaps
SpecHash == InitHash /\ [][NextHash]_vars

\* the L3-miss experiment: the parent, its child processes and their threads;
\* a child may end at any time without its ++exit_count
NextExperiment ==
  \/ MainStep
  \/ \E node \in NodeIds : ChildStep(node)
  \/ \E node \in NodeIds : ChildDies(node)
  \/ \E node \in NodeIds, core \in CoreIds : WorkerStep(node, core)
SpecExperiment == InitExperiment /\ [][NextExperiment]_vars

\* the same with the scheduler's fairness: a process or thread that can take a
\* step takes one in the end; nothing makes a child die
SpecExperimentLive ==
  /\ SpecExperiment
  /\ WF_vars(MainStep)
  /\ \A node \in NodeIds : WF_vars(ChildStep(node))
  /\ \A node \in NodeIds, core \in CoreIds : WF_vars(WorkerStep(node, core))

\* one writer on the tree, and a second thread that only reads: it gets records
\* through the root pointer and calls lock() and unlock() on the snapshot page
TreeGetKeys == { KS, KSup }
TouchStep(t) ==
  \/ BeginTouchSnapshot(t)
  \/ LockPage(t)
  \/ UnlockPage(t)
NextTreeGet ==
  \/ \E t \in { "w1" } : TreeStep(t)
  \/ \E k \in TreeGetKeys, c \in { PayloadBig } : GetRecord("w2", k, c)
  \/ \E t \in { "w2" } : TouchStep(t)
SpecTreeGet == InitTree /\ [][NextTreeGet]_vars

\* two writers and the optimistic reader, every thread scheduled fairly: a
\* thread that can take a step is not left waiting for ever
LiveOps == ContendedOps
LiveReaderStep ==
  \/ StableCall(RootPage)
  \/ StableReturn
NextLive ==
  \/ \E t \in Writers : WriterStep(t, LiveOps, { TRUE })
  \/ LiveReaderStep
SpecLive ==
  /\ Init
  /\ [][NextLive]_vars
  /\ \A t \in Writers : WF_vars(WriterStep(t, LiveOps, { TRUE }))
  /\ WF_vars(LiveReaderStep)

(* ------------------------------------------------------------------ *)
(* Properties                                                          *)
(* ------------------------------------------------------------------ *)
\* no writer is between a returned lock() and its unlock()
Quiescent == \A t \in Writers : th[t].holds = NullPage

Allocated == { p \in PageIds : pages[p].allocated }

\* the slots below key_count that have been written: while the inserting bit
\* is set, the slot under reservation may still be unwritten
Written(p) ==
  { i \in 0..(pages[p].ver.key_count - 1) :
      pages[p].ver.inserting = 0 \/ i < pages[p].ver.key_count - 1 }

StoredSlices(p) == { SliceAt(pages[p], i) : i \in Written(p) }
SlotKey(pg, i) == << SliceAt(pg, i), RemLen(pg, i) >>
LexLess(a, b) == a[1] < b[1] \/ (a[1] = b[1] /\ a[2] < b[2])
SharingSlice(p, s) == { i \in Written(p) : SliceAt(pages[p], i) = s }
Holders(p) == { t \in Writers : th[t].holds = p }

\* C1: on every volatile page at most one writer at a time is between a
\* returned lock() and its unlock(), and the step on which lock() returns is
\* the step that moves the page's locked bit from 0 to 1.
C1_LockMutualExclusion ==
  /\ [](\A p \in PageIds : ~pages[p].snapshot => Cardinality(Holders(p)) <= 1)
  /\ [][\A t \in Writers :
          (/\ th[t].holds = NullPage
           /\ th'[t].holds # NullPage
           /\ ~pages[th'[t].holds].snapshot)
            => (/\ pages[th'[t].holds].ver.locked = 0
                /\ pages'[th'[t].holds].ver.locked = 1)]_vars

\* one writer holds the lock of the root page while the other spins in lock()
C1_Witness ==
  \E t, u \in Writers :
    /\ t # u
    /\ th[t].holds = RootPage
    /\ th[u].pc = "locking"
    /\ th[u].page = RootPage

\* C2 (as stated): every version returned by get_stable_version has
\* locked = 0, inserting = 0 and splitting = 0.
C2_StableAllClear ==
  /\ rd.pc # "idle" => (rd.v0.locked = 0 /\ rd.v0.inserting = 0 /\ rd.v0.splitting = 0)
  /\ rd.pc = "done" => (rd.v1.locked = 0 /\ rd.v1.inserting = 0 /\ rd.v1.splitting = 0)

\* C2 (amended): every version returned by get_stable_version has
\* inserting = 0 and splitting = 0; its locked bit may be set.
C2_StableNotModifying ==
  /\ rd.pc # "idle" => (rd.v0.inserting = 0 /\ rd.v0.splitting = 0)
  /\ rd.pc = "done" => (rd.v1.inserting = 0 /\ rd.v1.splitting = 0)

\* a stable version was returned while a writer held the page lock
C2_Witness ==
  /\ rd.pc = "done"
  /\ rd.v1.locked = 1
  /\ \E t \in Writers : th[t].holds = rd.page

\* C3: unlock() by the lock holder of a volatile page leaves locked, inserting
\* and splitting 0, adds 1 to vsplit exactly when splitting was set, and
\* leaves every other field of the version word as it was.
C3_UnlockEffect ==
  [][\A t \in Writers :
       (/\ th[t].pc = "unlocking"
        /\ th'[t].pc # "unlocking"
        /\ ~pages[th[t].page].snapshot)
         => LET v == pages[th[t].page].ver
                w == pages'[th[t].page].ver
            IN  /\ v.locked = 1
                /\ w = [ v EXCEPT !.locked = 0, !.inserting = 0, !.splitting = 0,
                                  !.vsplit = IF v.splitting = 1 THEN v.vsplit + 1
                                             ELSE v.vsplit ]]_vars

\* a split of a page and a later slot reservation on its foster sibling were
\* both unlocked
C3_Witness ==
  \E p \in Allocated :
    /\ pages[p].ver.vsplit = 1
    /\ pages[p].ver.locked = 0
    /\ pages[p].ver.has_foster = 1
    /\ pages[pages[p].foster].ver.key_count >= 2
    /\ pages[pages[p].foster].ver.locked = 0
    /\ pages[pages[p].foster].ver.inserting = 0

\* C4: no step of any writer lowers the vsplit of a page, and the unlock()
\* that completes a split leaves vsplit above its value at the split's lock().
C4_VsplitMonotonic ==
  [][/\ \A p \in PageIds : pages'[p].ver.vsplit >= pages[p].ver.vsplit
     /\ \A t \in Writers :
          (/\ th[t].pc = "unlocking"
           /\ th'[t].pc # "unlocking"
           /\ pages[th[t].page].ver.splitting = 1)
            => pages'[th[t].page].ver.vsplit > th[t].vsplit0]_vars

\* a split completed while the other writer had an insert under way
C4_Witness ==
  \E p \in Allocated, t \in Writers :
    /\ pages[p].ver.vsplit >= 1
    /\ pages[p].ver.splitting = 0
    /\ th[t].pc # "idle"
    /\ th[t].op = "insert"

\* C5: a reader whose two stable versions agree has read slot contents (the
\* slot's slice and length, and its record) that were together the contents
\* of the slot in one state between the two version reads; stated for the
\* readers whose two versions were both taken with the page unlocked.
C5_ReadValidity ==
  (rd.pc = "done" /\ rd.ok /\ rd.v0.locked = 0 /\ rd.v1.locked = 0) =>
    \E h \in hist : h.meta = rd.meta /\ h.rec = rd.rec

C8_SlotsSorted ==
  Quiescent =>
    \A p \in Allocated : \A i, j \in Written(p) :
      i < j => LexLess(SlotKey(pages[p], i), SlotKey(pages[p], j))

\* C8 (amended): a slot reservation writes the new key's slice and length to
\* slot key_count - 1 and leaves the slots below it as they were, so the slots
\* are in the order of their reservation.
C8_ReserveAppends ==
  [][\A t \in Writers :
       (th[t].pc = "reserve_write" /\ th'[t].pc # "reserve_write")
         => LET old == pages[th[t].page]
                new == pages'[th[t].page]
                rk == RemKey(th[t].key, th[t].layer)
            IN  /\ th[t].index = new.ver.key_count - 1
                /\ SlotKey(new, th[t].index) = << SliceOf(rk), Len(rk) >>
                /\ \A i \in 0..(th[t].index - 1) : SlotKey(new, i) = SlotKey(old, i)]_vars

\* a page whose later slot holds the lower key
C8_Witness ==
  /\ Quiescent
  /\ \E p \in Allocated : \E i, j \in Written(p) :
       /\ ~pages[p].snapshot
       /\ i < j
       /\ LexLess(SlotKey(pages[p], j), SlotKey(pages[p], i))

\* C9: in every state, no two written slots of a border page that share a
\* slice both have remaining_key_length > 8 (a next-layer slot, of length
\* 255, included).
C9_OneLongSlotPerSlice ==
  \A p \in Allocated : \A i, j \in Written(p) :
    (i # j /\ SliceAt(pages[p], i) = SliceAt(pages[p], j))
      => ~(RemLen(pages[p], i) > kSliceLen /\ RemLen(pages[p], j) > kSliceLen)

\* two long keys with one slice were inserted: the slot became a next-layer
\* pointer and the next layer holds both
C9_Witness ==
  \E p \in Allocated : \E i \in Written(p) :
    /\ does_point_to_layer(pages[p], i)
    /\ DataAt(pages[p], OffsetsRaw(pages[p], i)).ptr # NullPage
    /\ pages[DataAt(pages[p], OffsetsRaw(pages[p], i)).ptr].ver.key_count = 2

\* C10 (as stated): in every state at most two slots of a border page share a
\* slice.
C10_TwoSlotsPerSlice ==
  \A p \in Allocated : \A s \in StoredSlices(p) : Cardinality(SharingSlice(p, s)) <= 2

\* C10 (amended): in every state the written slots of a border page that share
\* a slice differ in remaining_key_length and at most one of them is longer
\* than 8, so at most ten slots (lengths 0 to 8 and one longer) share a slice.
C10_SlotsPerSlice ==
  \A p \in Allocated : \A s \in StoredSlices(p) :
    /\ Cardinality(SharingSlice(p, s)) <= kSliceLen + 2
    /\ \A i, j \in SharingSlice(p, s) :
         i # j => /\ RemLen(pages[p], i) # RemLen(pages[p], j)
                  /\ RemLen(pages[p], i) <= kSliceLen \/ RemLen(pages[p], j) <= kSliceLen

\* three slots of one page share a slice
C10_Witness ==
  \E p \in Allocated : \E s \in StoredSlices(p) : Cardinality(SharingSlice(p, s)) = 3

\* C11: in every state the key_count of every border page is at most kMaxKeys.
C11_KeyCountBound ==
  \A p \in Allocated : pages[p].ver.key_count <= kMaxKeys

\* the bytes of data_ below the last record when slot new_index is reserved
FreeHeapBytes(pg, new_index) ==
  IF new_index = 0 THEN kDataSize ELSE OffsetsRaw(pg, new_index - 1) * 16

\* the aligned size of the record that writer t is inserting
RecordSizeOf(t) ==
  align16(calculate_suffix_length(Len(RemKey(th[t].key, th[t].layer))) + th[t].cnt)

\* C15: can_accomodate returned true (the writer goes on to reserve the slot)
\* exactly when the aligned record size is at most the free bytes of data_,
\* and it returned false (the writer goes on to split) exactly when it is
\* more, for every new_index.
C15_AccomodateExact ==
  \A t \in Writers :
    /\ th[t].pc = "reserve" =>
         RecordSizeOf(t) <= FreeHeapBytes(pages[th[t].page], th[t].index)
    /\ (th[t].pc = "unlocking" /\ th[t].next = "split") =>
         RecordSizeOf(t) >
           FreeHeapBytes(pages[th[t].page], pages[th[t].page].ver.key_count)

\* the next-layer pointer held by the record of slot i
NextLayerOf(pg, i) == DataAt(pg, OffsetsRaw(pg, i)).ptr

Pending(t) ==
  /\ th[t].op = "insert"
  /\ th[t].pc = "pending" \/ (th[t].pc = "unlocking" /\ th[t].next = "pending")

\* C13: a slot that reserve_record_space created is flagged deleted from the
\* state in which readers can see it until the inserting transaction commits;
\* a get_record of the key in between returns KeyNotFound; when the
\* transaction aborts the record stays flagged deleted, and the flag of a
\* record is cleared by nothing but the commit of an insert of that record.
C13_DeletedUntilCommit ==
  [][ /\ \A t \in Writers :
           Pending(t)' => OwnerAt(pages'[th'[t].page], th'[t].index).deleted
      /\ \A t \in Writers :
           (th'["w2"] # th["w2"] /\ th'["w2"].op = "get" /\ Pending(t)
              /\ th'["w2"].key = th[t].key)
             => th'["w2"].result = "KeyNotFound"
      /\ \A t \in Writers :
           (th[t].pc = "pending" /\ th'[t].result = "aborted")
             => OwnerAt(pages'[th[t].page], th[t].index).deleted
      /\ \A p \in PageIds : \A i \in 0..(kMaxKeys - 1) :
           ( /\ pages[p].allocated
             /\ i < pages[p].ver.key_count
             /\ pages[p].ver.splitting = 0
             /\ OwnerAt(pages[p], i).deleted
             /\ ~OwnerAt(pages'[p], i).deleted )
             => \E t \in Writers :
                  /\ th[t].pc = "pending" /\ th[t].page = p /\ th[t].index = i
                  /\ th'[t].result = "committed" ]_vars

\* a get_record of a key returned KeyNotFound while the insert of that key
\* holds its reserved, still deleted slot in a page that readers can read
C13_Witness ==
  /\ th["w1"].op = "insert" /\ th["w1"].pc = "pending"
  /\ OwnerAt(pages[th["w1"].page], th["w1"].index).deleted
  /\ get_stable_version(pages[th["w1"].page]) # { }
  /\ th["w2"].op = "get"
  /\ th["w2"].key = th["w1"].key
  /\ th["w2"].result = "KeyNotFound"

\* the pages of a layer: the first page and the chain of its foster siblings
RECURSIVE LayerPages(_)
LayerPages(p) ==
  IF p = NullPage \/ ~pages[p].allocated THEN { }
  ELSE { p } \cup (IF pages[p].ver.has_foster = 1 THEN LayerPages(pages[p].foster)
                   ELSE { })

\* the written slots of a layer that are records of exactly the key bytes rk
RecordSlots(root, rk) ==
  { s \in LayerPages(root) \X (0..(kMaxKeys - 1)) :
      /\ s[2] \in Written(s[1])
      /\ SliceAt(pages[s[1]], s[2]) = SliceOf(rk)
      /\ RemLen(pages[s[1]], s[2]) = Len(rk)
      /\ Len(rk) > kSliceLen =>
           DataAt(pages[s[1]], OffsetsRaw(pages[s[1]], s[2])).sfx = SuffixOf(rk) }

\* the next layers that the written slots of a layer point to for the slice of rk
LayersBelow(root, rk) ==
  { get_next_layer(pages[s[1]], s[2]) :
      s \in { x \in LayerPages(root) \X (0..(kMaxKeys - 1)) :
                /\ x[2] \in Written(x[1])
                /\ SliceAt(pages[x[1]], x[2]) = SliceOf(rk)
                /\ does_point_to_layer(pages[x[1]], x[2])
                /\ get_next_layer(pages[x[1]], x[2]) # NullPage } }

\* every slot of the tree under root that is a record of the full key
RECURSIVE SlotsHolding(_, _, _)
SlotsHolding(root, key, layer) ==
  LET rk == RemKey(key, layer)
  IN  RecordSlots(root, rk) \cup
      (IF Len(rk) > kSliceLen
         THEN UNION { SlotsHolding(r, key, layer + 1) : r \in LayersBelow(root, rk) }
         ELSE { })

\* C14: whatever the writers do, among them inserts of one key by two threads
\* at a time, at most one slot of the whole tree is a record of a given full
\* key, and a writer that found its key in the re-scan under the page lock has
\* reserved no slot.
C14_OneSlotPerKey ==
  /\ \A k \in Keys : Cardinality(SlotsHolding(RootPage, k, 0)) <= 1
  /\ \A t \in Writers :
       th[t].result = "KeyAlreadyExists" =>
         \A p \in Allocated : pages[p].ver.inserting = 1 => th[t].holds # p

\* two threads insert the same key at the same time: one holds the only slot
\* of the key, the other found the key in its re-scan
C14_Witness ==
  /\ th["w1"].op = "insert" /\ th["w2"].op = "insert"
  /\ th["w1"].key = th["w2"].key
  /\ th["w1"].pc = "pending"
  /\ th["w2"].result = "KeyAlreadyExists"
  /\ Cardinality(SlotsHolding(RootPage, th["w1"].key, 0)) = 1

\* thread t is inside a lock() call that has not returned
InLock(t) == th[t].pc \in { "locking", "split" }

LiveSlots(k) ==
  { s \in SlotsHolding(RootPage, k, 0) : ~OwnerAt(pages[s[1]], s[2]).deleted }

\* the payload bytes and the payload length stored in a slot
StoredPayload(s) ==
  PayloadPrefix(DataAt(pages[s[1]], OffsetsRaw(pages[s[1]], s[2])).pay,
                PayloadLen(pages[s[1]], s[2]))
StoredLength(s) == PayloadLen(pages[s[1]], s[2])

\* thread t ends the call of an index operation in this step
Returns(t, op) == th'[t] # th[t] /\ th'[t].op = op /\ th'[t].pc = "idle"

\* C17: a committed insert_record(k, p) leaves a record of k that is not
\* deleted and holds p with length |p|, and a get_record(k) of a key that has
\* such a record returns its payload with payload_capacity set to its length.
C17_RoundTrip ==
  [][ /\ \A t \in Writers :
           (th[t].pc = "pending" /\ th'[t].result = "committed")
             => \A k \in { th[t].key } : \E s \in LiveSlots(k)' :
                  /\ StoredPayload(s)' = th[t].pay
                  /\ StoredLength(s)' = th[t].cnt
      /\ \A t \in Writers :
           Returns(t, "get")
             => \A s \in LiveSlots(th'[t].key) :
                  /\ th'[t].result = "ok"
                  /\ th'[t].got = StoredPayload(s)
                  /\ th'[t].cap = StoredLength(s) ]_vars

\* C18: a committed delete_record(k) leaves no live record of k, so that a
\* get_record(k) after it returns KeyNotFound, and a delete_record of a key
\* that has no live record returns KeyNotFound and changes nothing.
C18_DeleteThenGet ==
  [][ /\ \A t \in Writers :
           Returns(t, "delete")
             => \A k \in { th'[t].key } :
                  /\ th'[t].result = "committed" => LiveSlots(k)' = { }
                  /\ LiveSlots(k) = { }
                       => th'[t].result = "KeyNotFound" /\ pages' = pages
      /\ \A t \in Writers :
           (Returns(t, "get") /\ LiveSlots(th'[t].key) = { })
             => th'[t].result = "KeyNotFound" ]_vars

PayByte(pay, j) == IF j <= Len(pay) THEN pay[j] ELSE 0

\* C20: an overwrite_record(k, off, q) of a key that has a live record with a
\* payload of n bytes: when off + |q| <= n it commits, the payload bytes from
\* off on are q, and every other payload byte, the payload length, the slot
\* and every other record and page are as before; when off + |q| > n it
\* returns TooShortPayload and changes nothing.
C20_OverwriteFrame ==
  [][ \A t \in Writers :
        Returns(t, "overwrite")
          => \A s \in LiveSlots(th'[t].key) :
               LET pg == pages[s[1]]
                   ng == pages'[s[1]]
                   b == OffsetsRaw(pg, s[2])
                   n == PayloadLen(pg, s[2])
                   off == th'[t].off
                   q == th'[t].pay
               IN  IF off + Len(q) <= n
                     THEN /\ th'[t].result = "committed"
                          /\ \A j \in 1..n :
                               PayByte(DataAt(ng, b).pay, j) =
                                 IF j > off /\ j <= off + Len(q) THEN q[j - off]
                                 ELSE PayByte(DataAt(pg, b).pay, j)
                          /\ [ng EXCEPT !.data = pg.data] = pg
                          /\ DOMAIN ng.data = DOMAIN pg.data
                          /\ \A x \in DOMAIN pg.data :
                               [ng.data[x] EXCEPT !.pay = pg.data[x].pay] = pg.data[x]
                          /\ \A x \in DOMAIN pg.data \ { b } : ng.data[x] = pg.data[x]
                          /\ \A o \in PageIds \ { s[1] } : pages'[o] = pages[o]
                     ELSE /\ th'[t].result = "TooShortPayload"
                          /\ pages' = pages ]_vars

\* C21: a get_record(k) into a buffer of capacity bytes, of a key that has a
\* live record, sets payload_capacity to the payload length of the record in
\* both outcomes: it returns TooSmallPayloadBuffer when the capacity is below
\* that length, and otherwise succeeds with exactly the stored payload.
C21_CapacityIsLength ==
  [][ \A t \in Writers :
        Returns(t, "get")
          => \A s \in LiveSlots(th'[t].key) :
               /\ th'[t].cap = StoredLength(s)
               /\ IF th'[t].cnt < StoredLength(s)
                    THEN th'[t].result = "TooSmallPayloadBuffer"
                    ELSE /\ th'[t].result = "ok"
                         /\ th'[t].got = StoredPayload(s) ]_vars

\* the range-lock entries that thread u holds from a miss on the key k
MissOn(u, k) ==
  { e \in th[u].rset :
      e.kind = "range" /\ th[u].result = "KeyNotFound" /\ th[u].key = k }

\* C22: a get_record, delete_record or overwrite_record that returns
\* KeyNotFound leaves every page as it was and leaves in the read set of the
\* caller a range-lock entry on the page the key would be in, with the stable
\* version of that page and the neighbouring slices around the key's slice;
\* and when another thread then commits an insert of that key into a slot the
\* observed version did not cover, the version of the entry's page differs
\* from the observed one, so that the entry no longer validates.
C22_MissRangeLock ==
  [][ /\ \A t \in Writers :
           ( /\ \E op \in { "get", "delete", "overwrite" } : Returns(t, op)
             /\ th'[t].result = "KeyNotFound" )
             => /\ pages' = pages
                /\ \E e \in th'[t].rset :
                     LET pg == pages[e.page]
                         slice == SliceOf(RemKey(th'[t].key, pg.ver.layer))
                     IN  /\ e.kind = "range"
                         /\ pg.allocated
                         /\ pg.low_fence <= slice /\ slice <= pg.high_fence
                         /\ e.observed \in get_stable_version(pg)
                         /\ e.low <= slice /\ slice <= e.high
                         /\ \A x \in StoredSlices(e.page) : ~(e.low < x /\ x < e.high)
      /\ \A t, u \in Writers :
           ( /\ t # u
             /\ th[t].pc = "pending" /\ th[t].result = "reserved"
             /\ th'[t].result = "committed" )
             => \A e \in MissOn(u, th[t].key) :
                  ~(th[t].page = e.page /\ th[t].index < e.observed.key_count)
                    => ~SameVersion(pages'[e.page].ver, e.observed) ]_vars

\* the live records of the key k, the one included that a writer is moving to
\* a new layer and that is, between the two stores of set_next_layer, in the
\* new root page and not yet linked
KeptSlots(k) ==
  LiveSlots(k) \cup
    UNION { { s \in SlotsHolding(th[t].child, k, th[t].layer + 1) :
                ~OwnerAt(pages[s[1]], s[2]).deleted } :
            t \in { u \in Writers :
                      /\ th[u].pc = "promote_set2"
                      /\ Len(RemKey(k, th[u].layer)) > kSliceLen
                      /\ SliceOf(RemKey(k, th[u].layer)) =
                           SliceAt(pages[th[u].page], th[u].index) } }
KeptRecords(k) == { << StoredPayload(s), StoredLength(s) >> : s \in KeptSlots(k) }

\* C23: while insert_record(k, p) runs on a key k that has a live record, no
\* step of the call changes the payload or the payload length of that record
\* or the key_count of a page, the call reserves or takes over no slot, and
\* it returns KeyAlreadyExists with the record of k, under its observed owner
\* id, in the read set of the caller.
C23_InsertExisting ==
  [][ \A t \in { "w1" } :
        ( /\ th[t].op = "insert" /\ th[t].pc # "idle"
          /\ th'[t] # th[t]
          /\ KeptSlots(th[t].key) # { } )
          => \A k \in { th[t].key } :
               /\ KeptRecords(k)' = KeptRecords(k)
               /\ Cardinality(KeptSlots(k)') = 1
               /\ \A p \in Allocated : pages'[p].ver.key_count = pages[p].ver.key_count
               /\ th'[t].result \notin { "reserved", "reused", "committed", "aborted" }
               /\ th'[t].pc = "idle" =>
                    /\ th'[t].result = "KeyAlreadyExists"
                    /\ \E e \in th'[t].rset : \E n \in LiveSlots(k)' :
                         /\ e.kind = "record"
                         /\ e.page = n[1] /\ e.slot = n[2]
                         /\ e.observed = OwnerAt(pages'[n[1]], n[2]) ]_vars

\* an insert of a 9-byte key that has a live record returned KeyAlreadyExists
C23_Witness ==
  /\ th["w1"].pc = "idle" /\ th["w1"].op = "insert"
  /\ th["w1"].result = "KeyAlreadyExists"
  /\ Len(th["w1"].key) > kSliceLen
  /\ th["w1"].rset # { }
  /\ LiveSlots(th["w1"].key) # { }

\* a writer is between the key lock and the key unlock of a promotion
InPromotion(t) ==
  th[t].pc \in { "promote_create", "promote_set1", "promote_set2", "promote_unlock" }

\* what get_record finds for the key k: the payload and owner id of the
\* record, or the error
RetrievedAt(r) ==
  IF IsLive(pages, r)
    THEN << "ok", StoredPayload(<< r.page, r.index >>),
            StoredLength(<< r.page, r.index >>) >>
    ELSE << IF r.found = "found" THEN "KeyNotFound" ELSE r.found, << >>, 0 >>
Retrieved(k) == RetrievedAt(LookupRecord(pages, RootPage, k, 0))

\* some slot of the tree has been made a next-layer slot
Promoted ==
  \E p \in Allocated : \E i \in Written(p) : does_point_to_layer(pages[p], i)

\* C24: a promotion of a slot to a next layer keeps the content of the tree:
\* no step of it changes the payload, the payload length or the deleted flag
\* of a live record of any key, and in every state of a promotion and after
\* it a lookup of a key that has a live record (the record that was moved,
\* the key whose insert made the promotion once it has committed, and every
\* other key) finds that record with its payload, unless it waits for a
\* stable version of a page.
C24_PromotionKeepsContent ==
  [][ /\ \A t \in Writers :
           (InPromotion(t) /\ th'[t] # th[t])
             => \A k \in Keys :
                  /\ KeptRecords(k)' = KeptRecords(k)
                  /\ \A s \in KeptSlots(k) : \E n \in KeptSlots(k)' :
                       OwnerAt(pages'[n[1]], n[2]).deleted = OwnerAt(pages[s[1]], s[2]).deleted
      /\ (Promoted \/ \E t \in Writers : InPromotion(t))
           => \A k \in Keys : \A rec \in KeptRecords(k) :
                \A got \in { Retrieved(k) } :
                  got[1] # "spin" => got = << "ok", rec[1], rec[2] >> ]_vars

\* the search keys of a page: what is left of each key in the layer of the page
SearchKeys(p) == { RemKey(k, pages[p].ver.layer) : k \in Keys }

\* slot i of the page is a local record of exactly the key bytes rk, going by
\* the slice and length of the slot and the suffix in the slot's own record
HoldsKey(p, i, rk) ==
  /\ SliceAt(pages[p], i) = SliceOf(rk)
  /\ RemLen(pages[p], i) = Len(rk)
  /\ DataAt(pages[p], OffsetsRaw(pages[p], i)).sfx = SuffixOf(rk)

\* C25: on every page whose slots are all written, for every search key of
\* more than 8 bytes and every slot i that is a local record: find_key
\* returns i exactly when the slot has the slice and the length of the key
\* and its own record holds the suffix of the key, and find_key_for_reserve
\* reports kExactMatchLocalRecord at i exactly then.
C25_LongKeyMatch ==
  \A p \in Allocated : pages[p].ver.inserting = 0 =>
    \A rk \in { x \in SearchKeys(p) : Len(x) > kSliceLen } :
      \A i \in { j \in Written(p) : ~does_point_to_layer(pages[p], j) } :
        /\ find_key(pages[p], pages[p].ver, SliceOf(rk), SuffixOf(rk), Len(rk)) = i
             <=> HoldsKey(p, i, rk)
        /\ find_key_for_reserve(pages[p], 0, pages[p].ver.key_count,
                                SliceOf(rk), SuffixOf(rk), Len(rk))
               = FindKeyForReserveResult(i, kExactMatchLocalRecord)
             <=> HoldsKey(p, i, rk)

\* the slots of the page that have the slice and the length of the key bytes rk
SameSliceAndLength(p, rk) ==
  { j \in Written(p) : /\ SliceAt(pages[p], j) = SliceOf(rk)
                        /\ RemLen(pages[p], j) = Len(rk) }

\* C26: on every page whose slots are all written, for every search key of at
\* most 8 bytes, find_key returns a slot below key_count that has the slice
\* and the length of the key when the page has such a slot, and kMaxKeys when
\* it has none; so it never returns a slot of the same slice with another
\* length, a slot of a longer key or a next-layer slot.
C26_ShortKeyMatch ==
  \A p \in Allocated : pages[p].ver.inserting = 0 =>
    \A rk \in { x \in SearchKeys(p) : Len(x) <= kSliceLen } :
      LET i == find_key(pages[p], pages[p].ver, SliceOf(rk), SuffixOf(rk), Len(rk))
      IN  IF SameSliceAndLength(p, rk) # { }
            THEN i \in SameSliceAndLength(p, rk)
            ELSE i = kMaxKeys

\* a one-byte key is found in slot 1 of a page, behind a next-layer slot of
\* the same slice, and the two-byte key of that slice, which has no slot on
\* the page, is not found
C26_Witness ==
  \E p \in Allocated :
    /\ pages[p].ver.inserting = 0
    /\ pages[p].ver.key_count = 2
    /\ does_point_to_layer(pages[p], 0)
    /\ SliceAt(pages[p], 0) = SliceOf(KS)
    /\ find_key(pages[p], pages[p].ver, SliceOf(KS), SuffixOf(KS), Len(KS)) = 1
    /\ find_key(pages[p], pages[p].ver, SliceOf(KS2), SuffixOf(KS2), Len(KS2)) = kMaxKeys

\* the local records of the page that conflict with the key bytes rk: same
\* slice, both with more than 8 bytes, another length or another suffix
ConflictingSlots(p, rk) ==
  { i \in Written(p) :
      /\ SliceAt(pages[p], i) = SliceOf(rk)
      /\ Len(rk) > kSliceLen
      /\ ~does_point_to_layer(pages[p], i)
      /\ RemLen(pages[p], i) > kSliceLen
      /\ ~HoldsKey(p, i, rk) }

\* C27: on every page whose slots are all written and for every search key,
\* find_key_for_reserve returns kConflictingLocalRecord exactly when a local
\* record of the page has the slice of the key, both have more than 8 bytes
\* and they differ in length or suffix; it returns kExactMatchLayerPointer
\* only for a key of more than 8 bytes at a next-layer slot of its slice, and
\* kNotFound for a key of at most 8 bytes that has no slot of its slice and
\* length; and a writer is in a promotion only with more than 8 bytes of
\* its key left.
C27_ConflictExactlyThen ==
  /\ \A p \in Allocated : pages[p].ver.inserting = 0 =>
       \A rk \in SearchKeys(p) :
         LET r == find_key_for_reserve(pages[p], 0, pages[p].ver.key_count,
                                       SliceOf(rk), SuffixOf(rk), Len(rk))
         IN  /\ r.match_type = kConflictingLocalRecord
                  <=> ConflictingSlots(p, rk) # { }
             /\ r.match_type = kConflictingLocalRecord
                  => r.index \in ConflictingSlots(p, rk)
             /\ r.match_type = kExactMatchLayerPointer
                  => /\ Len(rk) > kSliceLen
                     /\ r.index \in Written(p)
                     /\ does_point_to_layer(pages[p], r.index)
                     /\ SliceAt(pages[p], r.index) = SliceOf(rk)
             /\ (Len(rk) <= kSliceLen /\ SameSliceAndLength(p, rk) = { })
                  => r.match_type = kNotFound
  /\ \A t \in Writers :
       (InPromotion(t) \/ th[t].pc = "promote_keylock")
         => Len(RemKey(th[t].key, th[t].layer)) > kSliceLen

\* index i is the place of the slice among the first count separators:
\* separators[i-1] <= slice < separators[i], with nothing to the left of
\* index 0 and nothing to the right of index count
RoutedTo(separators, count, slice, i) ==
  /\ i \in 0..count
  /\ i > 0 => separators[i] <= slice
  /\ i < count => slice < separators[i + 1]

\* C28: find_minipage on an intermediate page and find_pointer on a mini-page
\* return the one index i of 0..key_count with
\* separators[i-1] <= slice < separators[i]; a slice equal to a separator
\* goes to the right of it, and with key_count 0 the result is 0.
C28_Routing ==
  /\ rd.pc \in { "minipage", "pointer" } =>
       LET pg == pages[rd.page]
           slice == rd.meta[1]
           i == rd.meta[2]
       IN  /\ RoutedTo(pg.separators, rd.v0.key_count, slice, i)
           /\ \A j \in 0..rd.v0.key_count :
                RoutedTo(pg.separators, rd.v0.key_count, slice, j) => j = i
           /\ \A k \in 1..rd.v0.key_count : pg.separators[k] = slice => i = k
           /\ rd.v0.key_count = 0 => i = 0
  /\ rd.pc = "pointer" =>
       LET mini == pages[rd.page].mini_pages[rd.meta[2]]
           slice == rd.meta[1]
           i == rd.idx
       IN  /\ RoutedTo(mini.separators, rd.v1.key_count, slice, i)
           /\ \A j \in 0..rd.v1.key_count :
                RoutedTo(mini.separators, rd.v1.key_count, slice, j) => j = i
           /\ \A k \in 1..rd.v1.key_count : mini.separators[k] = slice => i = k
           /\ rd.v1.key_count = 0 => i = 0

\* a slice equal to the first of two separators was routed to mini-page 1,
\* and in the mini-page, equal to its last separator, to the last pointer
C28_Witness ==
  /\ rd.pc = "pointer"
  /\ rd.v0.key_count = 2
  /\ pages[rd.page].separators[1] = rd.meta[1]
  /\ rd.meta[2] = 1
  /\ rd.v1.key_count = MaxSeparators
  /\ pages[rd.page].mini_pages[1].separators[MaxSeparators] = rd.meta[1]
  /\ rd.idx = MaxSeparators

KeyLockHolders(p, i) ==
  { u \in Writers : /\ th[u].page = p
                    /\ th[u].index = i
                    /\ (th[u].pc = "pending" \/ InPromotion(u)) }

\* C30: whenever set_next_layer changes a slot (either of its two stores),
\* the executing thread holds the lock of the border page and the key lock
\* of the slot's owner_id, and nobody else holds either; it took the key
\* lock while it already held the page lock; and before the first store the
\* slot held a local record with 8 < remaining_key_length <= kKeyLengthMax,
\* never a key of at most 8 bytes and never a next-layer slot.
C30_SetNextLayerUnderLocks ==
  [][ \A t \in Writers :
        LET pg == pages[th[t].page]
            i == th[t].index
        IN  /\ (th[t].pc \in { "promote_set1", "promote_set2" } /\ th'[t].pc # th[t].pc)
                  => /\ ~pg.snapshot
                     /\ pg.ver.locked = 1
                     /\ th[t].holds = th[t].page
                     /\ \A u \in Writers \ { t } : th[u].holds # th[t].page
                     /\ OwnerAt(pg, i).keylocked
                     /\ KeyLockHolders(th[t].page, i) = { t }
                     /\ i \in Written(th[t].page)
            /\ (th[t].pc = "promote_set1" /\ th'[t].pc # th[t].pc)
                  => /\ RemLen(pg, i) > kSliceLen
                     /\ RemLen(pg, i) <= kKeyLengthMax
                     /\ ~does_point_to_layer(pg, i)
                     /\ does_point_to_layer(pages'[th[t].page], i)
            /\ (th[t].pc = "promote_keylock" /\ th'[t].pc # th[t].pc)
                  => /\ pg.ver.locked = 1
                     /\ th[t].holds = th[t].page
                     /\ ~OwnerAt(pg, i).keylocked
                     /\ OwnerAt(pages'[th[t].page], i).keylocked
                     /\ th'[t].holds = th[t].page ]_vars

\* a writer is between the two stores of set_next_layer while the other
\* writer waits for the lock of the same page
C30_Witness ==
  /\ th["w1"].pc = "promote_set2"
  /\ th["w2"].pc = "locking"
  /\ th["w2"].page = th["w1"].page
  /\ does_point_to_layer(pages[th["w1"].page], th["w1"].index)

\* what slot i of a page holds: its slice, length, payload length and owner
\* id, and the part of the record its lengths give it (a key of at most 8
\* bytes has no suffix, a payload of length 0 has no bytes, and only a
\* next-layer slot has a pointer)
SlotRecord(pg, i) ==
  LET sl == SlotOf(pg, i)
      layer == sl.rkl = kKeyLengthNextLayer
  IN  [ slice |-> sl.slice, rkl |-> sl.rkl, paylen |-> sl.paylen, owner |-> sl.owner,
        sfx |-> IF sl.rkl > kSliceLen /\ ~layer THEN sl.content.sfx ELSE << >>,
        pay |-> IF sl.paylen > 0 /\ ~layer THEN sl.content.pay ELSE << >>,
        ptr |-> IF layer THEN sl.content.ptr ELSE NullPage ]

\* the slots of a page as values, and how often a value occurs among them
SlotValues(pg) == { SlotRecord(pg, i) : i \in 0..(pg.ver.key_count - 1) }
SlotCount(pg, v) ==
  Cardinality({ i \in 0..(pg.ver.key_count - 1) : SlotRecord(pg, i) = v })

TreeBorders ==
  { p \in PageIds : pages[p].allocated /\ ~pages[p].snapshot /\ pages[p].page_type = "border" }
SlicesIn(p) == { SliceAt(pages[p], i) : i \in Written(p) }

LockedMinis ==
  { pm \in PageIds \X (0..MaxSeparators) :
      /\ pages[pm[1]].allocated
      /\ pages[pm[1]].page_type = "intermediate"
      /\ pages[pm[1]].mini_pages[pm[2]].mini_version.locked = 1 }

C34_ReadsTakeNoLocks ==
  [][/\ \A t \in Writers :
          (th'[t] # th[t] /\ (th'[t].op = "get" \/ th[t].op = "touch"))
            => pages' = pages
     /\ pages'[SnapshotPage] = pages[SnapshotPage]
     /\ pages[SnapshotPage].ver.locked = 0
    ]_vars

\* a get_record has found the record of the supremum key in a foster sibling
\* behind the intermediate root, while the writer holds a page lock
C34_Witness ==
  /\ pages[root_dual_pointer].page_type = "intermediate"
  /\ th["w2"].op = "get"
  /\ th["w2"].key = KSup
  /\ th["w2"].result = "ok"
  /\ th["w1"].holds # NullPage

\* the writers that are between the two stores of set_next_layer on slot i of
\* page p: the length says next layer and the pointer is not stored yet
BetweenLayerStores(p, i) ==
  { t \in Writers : th[t].pc = "promote_set2" /\ th[t].page = p /\ th[t].index = i }

\* C35: a slot has remaining_key_length 255 if and only if it holds a
\* next-layer pointer: every written slot of a border page whose length is 255
\* has a pointer to an allocated page where its record is (or a writer is
\* about to store it), and every other slot has a length in 0..254; no
\* insert, whatever the length of its key, leaves a local record of length 255
C35_LengthNextLayerIffPointer ==
  \A p \in TreeBorders : \A i \in Written(p) :
    /\ RemLen(pages[p], i) = kKeyLengthNextLayer
         => \/ BetweenLayerStores(p, i) # { }
            \/ /\ get_next_layer(pages[p], i) \in PageIds
               /\ pages[get_next_layer(pages[p], i)].allocated
    /\ RemLen(pages[p], i) # kKeyLengthNextLayer
         => RemLen(pages[p], i) \in 0..kKeyLengthMax

\* the block at which the record before slot i starts: the end of data_ for
\* the first slot
PreviousOffset(pg, i) == IF i = 0 THEN kDataSize \div 16 ELSE OffsetsRaw(pg, i - 1)

\* the bytes of the record of slot i: what calculate_record_size gave when it
\* was reserved; a next-layer slot keeps the room of the record it replaced
RecordBytes(pg, i) ==
  IF does_point_to_layer(pg, i)
    THEN (PreviousOffset(pg, i) - OffsetsRaw(pg, i)) * 16
    ELSE calculate_record_size(RemLen(pg, i), PayloadLen(pg, i))

\* C36: the records are packed from the end of data_ downward: for every
\* written slot of a border page the record lies inside data_ (its offset
\* times 16 plus its size is at most kDataSize, the first record included), it
\* ends where the record of the previous slot starts or below (no two records
\* overlap, no wrap-around of the 8-bit offset), and the offsets of records
\* of non-zero size are strictly decreasing in the slot index.
C36_RecordsPackedInsideData ==
  \A p \in TreeBorders : \A i \in Written(p) :
    LET pg == pages[p]
    IN  /\ OffsetsRaw(pg, i) * 16 + RecordBytes(pg, i) <= kDataSize
        /\ OffsetsRaw(pg, i) * 16 + RecordBytes(pg, i) <= PreviousOffset(pg, i) * 16
        /\ RecordBytes(pg, i) > 0 => OffsetsRaw(pg, i) < PreviousOffset(pg, i)

\* the two half-open ranges share at least one hash value
ShareHashValue(a, b) == \E h \in HashValues : contains(a, h) /\ contains(b, h)

\* C37: overlaps(other) is true if and only if the two half-open ranges share
\* a hash value: it is symmetric, false for adjacent ranges and false when one
\* of the ranges is empty
C37_OverlapsIffShared ==
  rd.pc = "overlaps"
    => /\ rd.forward <=> ShareHashValue(rd.range, rd.other)
       /\ rd.forward <=> rd.backward

\* the worker threads of the experiment's processes
ExperimentWorkers ==
  { w \in NodeIds \X CoreIds : w[1] < l3miss.nodes /\ w[2] < l3miss.cores_per_node }

\* C38: the start barrier: no worker thread is in or past its measured run()
\* unless the parent has stored experiment_started = true, and the step that
\* stores it is taken only when initialized_count has reached
\* nodes * cores_per_node, which is when every worker of every child has
\* registered (has done its ++initialized_count) and none has begun to run
C38_StartBarrier ==
  [][/\ \A w \in ExperimentWorkers :
          l3miss'.worker[w[1]][w[2]] \in { "run", "returned" }
            => l3miss'.process_channel.experiment_started
     /\ (l3miss'.process_channel.experiment_started
           /\ ~l3miss.process_channel.experiment_started)
          => /\ l3miss.process_channel.initialized_count
                  = l3miss.nodes * l3miss.cores_per_node
             /\ \A w \in ExperimentWorkers : l3miss.worker[w[1]][w[2]] = "spin"
     /\ l3miss.process_channel.experiment_started
          => l3miss'.process_channel.experiment_started
    ]_vars

\* the barrier has opened for two processes of two threads: one thread runs
\* while another has not yet seen the flag
C38_Witness ==
  /\ l3miss.nodes = 2
  /\ l3miss.cores_per_node = 2
  /\ l3miss.process_channel.experiment_started
  /\ l3miss.process_channel.initialized_count = 4
  /\ \E w \in ExperimentWorkers : l3miss.worker[w[1]][w[2]] = "run"
  /\ \E w \in ExperimentWorkers : l3miss.worker[w[1]][w[2]] = "spin"

\* every child process has been forked and has ended, with or without its
\* ++exit_count
AllChildrenTerminated ==
  /\ l3miss.pc \notin { "none", "fork" }
  /\ \A node \in NodeIds : node < l3miss.nodes => Terminated(node)

\* C39: once every forked child process has ended, whether it returned from
\* process_main or ended without incrementing exit_count, the parent's wait
\* loop ends and main returns; and main returns 0 only when exit_count has
\* reached nodes
C39_ParentReturns ==
  /\ AllChildrenTerminated ~> (l3miss.pc = "returned")
  /\ [](l3miss.pc = "returned" /\ l3miss.ret = 0
          => l3miss.process_channel.exit_count = l3miss.nodes)

\* the keys the searches are called with, and the search key at a layer
ProbeKeys == Keys \cup { K8 }
ProbeLayers == { 0, 1 }

\* find_key and find_key_for_reserve agree on page pg for the key rk
SearchesAgree(pg, rk) ==
  LET kc == pg.ver.key_count
      i == find_key(pg, pg.ver, SliceOf(rk), SuffixOf(rk), Len(rk))
      r == find_key_for_reserve(pg, 0, kc, SliceOf(rk), SuffixOf(rk), Len(rk))
      exact == r.match_type \in { kExactMatchLocalRecord, kExactMatchLayerPointer }
  IN  /\ i # kMaxKeys => (exact /\ r.index = i)
      /\ exact => i = r.index
      /\ Len(rk) = kSliceLen => find_key_normalized(pg, 0, kc, SliceOf(rk)) = i

\* C40: on every border page and for every search key (slice, suffix,
\* remaining length), find_key returns an index other than kMaxKeys if and only
\* if find_key_for_reserve over the slots 0..key_count returns
\* kExactMatchLocalRecord or kExactMatchLayerPointer with that index, and for
\* a remaining length of 8 find_key_normalized returns the index find_key does
C40_SearchAgreement ==
  \A p \in TreeBorders : \A k \in ProbeKeys : \A l \in ProbeLayers :
    Len(k) >= kSliceLen * l => SearchesAgree(pages[p], RemKey(k, l))

\* a page holds keys of one slice with lengths 1, 8 and 9: the 8-byte key is
\* found by the three searches behind the 1-byte key, and the search for
\* another 9-byte key of the slice ends at the long record, which is no exact
\* match for find_key_for_reserve and no match for find_key
C40_Witness ==
  \E p \in TreeBorders :
    LET pg == pages[p]
        kc == pg.ver.key_count
    IN  /\ pg.ver.inserting = 0
        /\ find_key(pg, pg.ver, SliceOf(KS), SuffixOf(KS), Len(KS)) # kMaxKeys
        /\ find_key(pg, pg.ver, SliceOf(K8), SuffixOf(K8), Len(K8)) \notin { 0, kMaxKeys }
        /\ find_key_normalized(pg, 0, kc, SliceOf(K8)) \notin { 0, kMaxKeys }
        /\ find_key_for_reserve(pg, 0, kc, SliceOf(KB), SuffixOf(KB), Len(KB)).match_type
             = kConflictingLocalRecord
        /\ find_key(pg, pg.ver, SliceOf(KB), SuffixOf(KB), Len(KB)) = kMaxKeys
====
